---- MODULE Spec2Model ----
(***************************************************************************)
(* Model of the message exchange core of ai-processing-layer:              *)
(*   - CacheManager (src/src/cache/CacheManager.ts), a wrapper around an    *)
(*     LRUCache configured with max, ttl, updateAgeOnGet and a dispose      *)
(*     callback that counts evictions;                                      *)
(*   - AIProcessingLayer (src/unnamed/part_001, lines 46-314), the peer     *)
(*     registry and the sendMessage pipeline.                               *)
(* Times are milliseconds, as in the source.                                *)
(***************************************************************************)
EXTENDS Integers, Sequences, FiniteSets, TLC

VARIABLES
  now,            \* the clock read by Date.now() and by the LRU cache
  cache,          \* the CacheManager: LRU list, configuration and stats
  backup,         \* the Map last returned by backupCritical()
  hist,           \* history: the keys set so far while only fresh sets happened
  agents,         \* AIProcessingLayer.agents: id -> registered agent object
  memoryContext,  \* agent object -> its memoryContext Map
  lastActive,     \* agent object -> its lastActive
  calls,          \* the sendMessage calls in flight, one record per slot
  last,           \* the call that returned last, with its return value
  ever            \* history: the ids passed to registerAgent so far

vars == <<now, cache, backup, hist, agents, memoryContext, lastActive, calls, last, ever>>

(***************************************************************************)
(* Bounds of the model.                                                    *)
(***************************************************************************)
CacheCap == 2       \* capacity N of the cache of the cache-only specification
MaxTicks == 2       \* the clock advances at most this many ticks
MaxCacheCalls == 3  \* cache-only runs: no set or get once sets + hits + misses reached this
MaxLongTicks == 1   \* layer runs: the clock advances at most this many route TTLs
MaxLayerCalls == 2  \* layer runs: no send or recall starts once sets + hits + misses reached this

(***************************************************************************)
(* Program constants.                                                      *)
(***************************************************************************)
DefaultMaxSize == 1000     \* CacheManager constructor, maxSize
DefaultMaxAge == 300000    \* CacheManager constructor, maxAge
DefaultTtl == 300000       \* CacheManager.set, ttl || 300000
RouteTtl == 300000         \* routeMessage, 5 minutes TTL
RestoreTtl == 600000       \* restoreCritical, 10 minutes TTL

LOW == 0
NORMAL == 1
HIGH == 2
CRITICAL == 3

Null == [null |-> TRUE]    \* JavaScript null / undefined as a value

\* one tick of the clock: just over half the route TTL, so that an entry is
\* older than ttl / 2 after one tick and expired after two
TickMs == RouteTtl \div 2 + 1
MaxNow == MaxTicks * TickMs

(***************************************************************************)
(* Sequence helpers.                                                       *)
(***************************************************************************)
RECURSIVE SeqRemove(_, _)
\* the sequence s without its elements whose key is k
SeqRemove(s, k) ==
  IF s = <<>> THEN <<>>
  ELSE IF Head(s).key = k THEN SeqRemove(Tail(s), k)
       ELSE <<Head(s)>> \o SeqRemove(Tail(s), k)

KeysOf(s) == {s[i].key : i \in 1..Len(s)}

EntryOf(s, k) == s[CHOOSE i \in 1..Len(s) : s[i].key = k]

(***************************************************************************)
(* CacheManager.  The cache value is a record                              *)
(*   [max, ttl, list, hits, misses, sets, evictions]                       *)
(* where list holds the stored entries, least recently used first.  An     *)
(* entry is the CacheEntry of the source plus start, the time from which   *)
(* the LRU cache counts the entry's ttl.                                    *)
(***************************************************************************)

\* new CacheManager(maxSize, maxAge): an empty LRU cache and zeroed stats
NewCache(maxSize, maxAge) ==
  [max |-> maxSize, ttl |-> maxAge, list |-> <<>>,
   hits |-> 0, misses |-> 0, sets |-> 0, evictions |-> 0]

\* the dispose callback of the constructor: one more eviction per dropped entry
Dispose(c, n) == [c EXCEPT !.evictions = @ + n]

\* a staleness test that never finds an entry stale
IsStaleNever(e, t) == FALSE

\* the LRU cache's staleness test: the ttl counts from start (allowStale: false)
IsStale(e, t) == t - e.start > e.ttl

\* what cache.size reports: every stored entry, stale ones included
CacheSize(c) == Len(c.list)

\* LruSet with the capacity test off by one: evicts only above max
LruSetLate(c, e) ==
  IF e.key \in KeysOf(c.list)
    THEN Dispose([c EXCEPT !.list = Append(SeqRemove(@, e.key), e)], 1)
    ELSE IF Len(c.list) > c.max
      THEN Dispose([c EXCEPT !.list = Append(Tail(@), e)], 1)
      ELSE [c EXCEPT !.list = Append(@, e)]

\* LruSet evicting the most recently used entry instead of the least
LruSetMru(c, e) ==
  IF e.key \in KeysOf(c.list)
    THEN Dispose([c EXCEPT !.list = Append(SeqRemove(@, e.key), e)], 1)
    ELSE IF Len(c.list) >= c.max
      THEN Dispose([c EXCEPT !.list = Append(SubSeq(@, 1, Len(@) - 1), e)], 1)
      ELSE [c EXCEPT !.list = Append(@, e)]

\* LruSet keeping the entry already stored under the key
LruSetKeepOld(c, e) ==
  IF e.key \in KeysOf(c.list)
    THEN c
    ELSE IF Len(c.list) >= c.max
      THEN Dispose([c EXCEPT !.list = Append(Tail(@), e)], 1)
      ELSE [c EXCEPT !.list = Append(@, e)]

\* the LRU cache's set: an existing key is replaced (its old entry disposed) and
\* moved to the most recent place; a new key on a full cache evicts the least
\* recently used entry first (disposed)
LruSet(c, e) ==
  IF e.key \in KeysOf(c.list)
    THEN Dispose([c EXCEPT !.list = Append(SeqRemove(@, e.key), e)], 1)
    ELSE IF Len(c.list) >= c.max
      THEN Dispose([c EXCEPT !.list = Append(Tail(@), e)], 1)
      ELSE [c EXCEPT !.list = Append(@, e)]

\* the ttl that set() gives the entry: ttl || 300000
EntryTtl(ttl) == IF ttl = 0 THEN DefaultTtl ELSE ttl

\* CacheManager.set(key, value, ttl, priority) at time t; ttl = 0 stands for an
\* omitted (or zero) ttl argument
CacheSet(c, key, value, ttl, priority, t) ==
  LET entry == [key |-> key, value |-> value, timestamp |-> t,
                ttl |-> EntryTtl(ttl), accessCount |-> 0,
                priority |-> priority, start |-> t]
      c1 == LruSet(c, entry)
  IN [c1 EXCEPT !.sets = @ + 1]

\* CacheGet that leaves the entry read at its place in the recency order
CacheGetInPlace(c, key, t) ==
  IF key \notin KeysOf(c.list)
    THEN [c |-> [c EXCEPT !.misses = @ + 1], ret |-> Null]
    ELSE LET e == EntryOf(c.list, key)
             i == CHOOSE j \in 1..Len(c.list) : c.list[j].key = key
         IN
      IF IsStale(e, t)
        THEN [c |-> [Dispose([c EXCEPT !.list = SeqRemove(@, key)], 1)
                       EXCEPT !.misses = @ + 1],
              ret |-> Null]
        ELSE [c |-> [c EXCEPT !.list[i] = [e EXCEPT !.start = t, !.accessCount = @ + 1],
                              !.hits = @ + 1],
              ret |-> e.value]

\* CacheManager.get(key) at time t: [c |-> the cache afterwards, ret |-> result]
CacheGet(c, key, t) ==
  IF key \notin KeysOf(c.list)
    THEN [c |-> [c EXCEPT !.misses = @ + 1], ret |-> Null]
    ELSE LET e == EntryOf(c.list, key) IN
      IF IsStale(e, t)
        THEN [c |-> [Dispose([c EXCEPT !.list = SeqRemove(@, key)], 1)
                       EXCEPT !.misses = @ + 1],
              ret |-> Null]
        ELSE [c |-> [c EXCEPT !.list = Append(SeqRemove(@, key),
                                   [e EXCEPT !.start = t, !.accessCount = @ + 1]),
                              !.hits = @ + 1],
              ret |-> e.value]

\* CacheManager.has(key) at time t: stored and not stale; nothing is changed
CacheHas(c, key, t) ==
  key \in KeysOf(c.list) /\ ~IsStale(EntryOf(c.list, key), t)

\* CacheManager.delete(key): [c |-> the cache afterwards, ret |-> was it stored]
CacheDelete(c, key) ==
  IF key \in KeysOf(c.list)
    THEN [c |-> Dispose([c EXCEPT !.list = SeqRemove(@, key)], 1), ret |-> TRUE]
    ELSE [c |-> c, ret |-> FALSE]

\* CacheManager.clear(): every stored entry is dropped (and disposed)
CacheClear(c) == Dispose([c EXCEPT !.list = <<>>], Len(c.list))

\* JavaScript numbers that are not integers: an exact fraction in lowest terms,
\* and NaN
RECURSIVE Gcd(_, _)
Gcd(a, b) == IF b = 0 THEN a ELSE Gcd(b, a % b)

NaN == [nan |-> TRUE]
Fraction(n, d) == [num |-> n \div Gcd(n, d), den |-> d \div Gcd(n, d)]

\* a / b for integers a >= 0 and b >= 0 with a <= b: 0 / 0 is NaN
JsDivide(a, b) == IF b = 0 THEN NaN ELSE Fraction(a, b)

\* x || 0: NaN and 0 are falsy
JsOrZero(x) == IF x = NaN THEN Fraction(0, 1) ELSE x

\* the hit rate without the || 0
HitRateBare(c) == JsDivide(c.hits, c.hits + c.misses)

\* hitRate: this.stats.hits / (this.stats.hits + this.stats.misses) || 0
HitRate(c) == JsOrZero(JsDivide(c.hits, c.hits + c.misses))

\* CacheManager.getStats()
GetStats(c) ==
  [hits |-> c.hits, misses |-> c.misses, sets |-> c.sets, evictions |-> c.evictions,
   size |-> CacheSize(c), hitRate |-> HitRate(c)]

\* the entries cache.entries() yields: the stored entries that are not stale
LiveEntries(c, t) == {c.list[i] : i \in {j \in 1..Len(c.list) : ~IsStale(c.list[j], t)}}

\* the candidates of optimize() without the test of the priority
OptimizeCandidatesAnyPriority(c, t) ==
  {e.key : e \in {x \in LiveEntries(c, t) :
                     /\ x.accessCount < 2
                     /\ 2 * (t - x.timestamp) > x.ttl}}

\* the candidates of optimize(): LOW, read fewer than twice, older than ttl / 2
OptimizeCandidates(c, t) ==
  {e.key : e \in {x \in LiveEntries(c, t) :
                     /\ x.priority = LOW
                     /\ x.accessCount < 2
                     /\ 2 * (t - x.timestamp) > x.ttl}}

RECURSIVE SeqRemoveAll(_, _)
\* the sequence s without its elements whose key is in ks
SeqRemoveAll(s, ks) ==
  IF s = <<>> THEN <<>>
  ELSE IF Head(s).key \in ks THEN SeqRemoveAll(Tail(s), ks)
       ELSE <<Head(s)>> \o SeqRemoveAll(Tail(s), ks)

\* CacheManager.optimize() at time t: each candidate is deleted from the LRU
\* cache (which disposes it) and stats.evictions is incremented once more
CacheOptimize(c, t) ==
  LET ks == OptimizeCandidates(c, t)
      c1 == Dispose([c EXCEPT !.list = SeqRemoveAll(@, ks)], Cardinality(ks))
  IN [c1 EXCEPT !.evictions = @ + Cardinality(ks)]

RECURSIVE CriticalOf(_, _)
\* the [key, value] pairs of the live CRITICAL entries of list s, most recently
\* used first (the order of cache.entries())
CriticalOf(s, t) ==
  IF s = <<>> THEN <<>>
  ELSE LET e == s[Len(s)]
           rest == CriticalOf(SubSeq(s, 1, Len(s) - 1), t)
       IN IF e.priority = CRITICAL /\ ~IsStale(e, t)
            THEN <<[key |-> e.key, value |-> e.value]>> \o rest
            ELSE rest

\* backupCritical() without the test of the priority
BackupAnyPriority(c, t) ==
  [i \in 1..Len(c.list) |->
     [key |-> c.list[Len(c.list) + 1 - i].key, value |-> c.list[Len(c.list) + 1 - i].value]]

\* CacheManager.backupCritical() at time t
BackupCritical(c, t) == CriticalOf(c.list, t)

RECURSIVE RestoreCritical(_, _, _)
\* CacheManager.restoreCritical(b) at time t: set() of each pair, in order
RestoreCritical(c, b, t) ==
  IF b = <<>> THEN c
  ELSE RestoreCritical(CacheSet(c, Head(b).key, Head(b).value, RestoreTtl, CRITICAL, t),
                       Tail(b), t)

(***************************************************************************)
(* JavaScript values.  A structured value is a tagged record; a call's     *)
(* outcome is either a returned value or a thrown error.                   *)
(***************************************************************************)
\* an integer of any width, hi * 65536 + lo with 0 <= lo < 65536
JsInt(hi, lo) == [type |-> "number", hi |-> hi, lo |-> lo]
\* the integer n
JsNumber(n) == JsInt(n \div 65536, n % 65536)
JsBuffer(b) == [type |-> "buffer", bytes |-> b]
JsNull == [type |-> "null"]
\* undefined as a structured value: an omitted data argument
JsUndefined == [type |-> "undefined"]
JsBool(b) == [type |-> "boolean", b |-> b]
\* a number that is not an integer, by the 8 bytes of its IEEE 754 double
JsFloat(bits) == [type |-> "float", bits |-> bits]
\* a string, by the bytes of its UTF-8 form
JsString(chars) == [type |-> "string", chars |-> chars]
JsArray(items) == [type |-> "array", items |-> items]
\* an object, by its own enumerable string keys in Object.keys order: a
\* sequence of [key |-> the key's bytes, value |-> the value]
JsObject(pairs) == [type |-> "object", pairs |-> pairs]

Returned(v) == [throws |-> FALSE, value |-> v]
Thrown(e) == [throws |-> TRUE, error |-> e]

EmptyMap == [k \in {} |-> Null]

\* Map.set(k, v)
MapSet(m, k, v) == [x \in DOMAIN m \cup {k} |-> IF x = k THEN v ELSE m[x]]

(***************************************************************************)
(* A114Protocol.  Buffer.writeInt32BE throws a RangeError for a value       *)
(* outside the signed 32-bit range -2^31 .. 2^31 - 1; a Buffer read past    *)
(* the end of the buffer throws a RangeError as well.                       *)
(***************************************************************************)
HEADER_SIZE == 8
VERSION == 1
NULL == 0
BOOL == 1
INT8 == 2
INT16 == 3
INT32 == 4
FLOAT64 == 6
\* DATA_TYPES.STRING (STRING is a reserved word of TLA+)
STRING_TYPE == 7
ARRAY == 8
OBJECT == 9

\* the k bytes, most significant first, of n modulo 256^k
RECURSIVE BytesBE(_, _)
BytesBE(n, k) == IF k = 0 THEN <<>> ELSE Append(BytesBE(n \div 256, k - 1), n % 256)

\* the integer branch with the width tests dropped: every integer as INT32
EncodeIntegerWide(value) ==
  IF value.hi >= -32768 /\ value.hi <= 32767
    THEN [throws |-> FALSE,
          bytes |-> <<INT32>> \o BytesBE(value.hi, 2) \o BytesBE(value.lo, 2)]
    ELSE Thrown("ERR_OUT_OF_RANGE")

\* an encoder of integers that keeps the low 32 bits of a wider integer
EncodeIntegerLow32(value) ==
  LET hi == value.hi
      lo == value.lo
  IN
  IF (hi = 0 /\ lo <= 127) \/ (hi = -1 /\ lo >= 65536 - 128)
    THEN [throws |-> FALSE, bytes |-> <<INT8>> \o BytesBE(lo, 1)]
  ELSE IF (hi = 0 /\ lo <= 32767) \/ (hi = -1 /\ lo >= 32768)
    THEN [throws |-> FALSE, bytes |-> <<INT16>> \o BytesBE(lo, 2)]
  ELSE [throws |-> FALSE,
        bytes |-> <<INT32>> \o BytesBE(hi % 65536, 2) \o BytesBE(lo, 2)]

\* the number branch of encodeValue for an integer: the narrowest of INT8,
\* INT16, INT32; writeInt32BE throws outside the signed 32-bit range
EncodeInteger(value) ==
  LET hi == value.hi
      lo == value.lo
  IN
  IF (hi = 0 /\ lo <= 127) \/ (hi = -1 /\ lo >= 65536 - 128)
    THEN [throws |-> FALSE, bytes |-> <<INT8>> \o BytesBE(lo, 1)]
  ELSE IF (hi = 0 /\ lo <= 32767) \/ (hi = -1 /\ lo >= 32768)
    THEN [throws |-> FALSE, bytes |-> <<INT16>> \o BytesBE(lo, 2)]
  ELSE IF hi >= -32768 /\ hi <= 32767
    THEN [throws |-> FALSE, bytes |-> <<INT32>> \o BytesBE(hi, 2) \o BytesBE(lo, 2)]
    ELSE Thrown("ERR_OUT_OF_RANGE")

RECURSIVE EncodeValue(_)
RECURSIVE EncodeItems(_)
RECURSIVE EncodePairs(_)

\* the loop over the items of an array: the chunks of each item in turn
EncodeItems(items) ==
  IF items = <<>> THEN [throws |-> FALSE, bytes |-> <<>>]
  ELSE LET first == EncodeValue(Head(items)) IN
       IF first.throws THEN first
       ELSE LET rest == EncodeItems(Tail(items)) IN
            IF rest.throws THEN rest
            ELSE [throws |-> FALSE, bytes |-> first.bytes \o rest.bytes]

\* the loop over the keys of an object: the key as a string, then its value
EncodePairs(pairs) ==
  IF pairs = <<>> THEN [throws |-> FALSE, bytes |-> <<>>]
  ELSE LET key == EncodeValue(JsString(Head(pairs).key))
           val == EncodeValue(Head(pairs).value)
       IN IF val.throws THEN val
          ELSE LET rest == EncodePairs(Tail(pairs)) IN
               IF rest.throws THEN rest
               ELSE [throws |-> FALSE, bytes |-> key.bytes \o val.bytes \o rest.bytes]

\* encodeValue(value, chunks): the bytes pushed for value, or the fault
EncodeValue(value) ==
  CASE value.type \in {"null", "undefined"} -> [throws |-> FALSE, bytes |-> <<NULL>>]
    [] value.type = "boolean" ->
         [throws |-> FALSE, bytes |-> <<BOOL, IF value.b THEN 1 ELSE 0>>]
    [] value.type = "number" -> EncodeInteger(value)
    [] value.type = "float" -> [throws |-> FALSE, bytes |-> <<FLOAT64>> \o value.bits]
    [] value.type = "string" ->
         [throws |-> FALSE,
          bytes |-> <<STRING_TYPE>> \o BytesBE(Len(value.chars), 4) \o value.chars]
    [] value.type = "array" ->
         LET items == EncodeItems(value.items) IN
         IF items.throws THEN items
         ELSE [throws |-> FALSE,
               bytes |-> <<ARRAY>> \o BytesBE(Len(value.items), 4) \o items.bytes]
    [] value.type = "object" ->
         LET pairs == EncodePairs(value.pairs) IN
         IF pairs.throws THEN pairs
         ELSE [throws |-> FALSE,
               bytes |-> <<OBJECT>> \o BytesBE(Len(value.pairs), 4) \o pairs.bytes]

\* createHeader(payloadLength): magic A1 14, version, flags, length
CreateHeader(payloadLength) == <<161, 20, VERSION, 0>> \o BytesBE(payloadLength, 4)

\* encode(data): header || payload, or the fault of encodeValue
Encode(data) ==
  LET payload == EncodeValue(data) IN
  IF payload.throws THEN payload
  ELSE [throws |-> FALSE, bytes |-> CreateHeader(Len(payload.bytes)) \o payload.bytes]

\* buffer.readUInt8(offset) and its kin throw a RangeError unless the n bytes
\* from offset (counted from 0) lie inside the buffer
CanRead(buffer, offset, n) == offset + n <= Len(buffer)

\* buffer.readUInt32BE(offset), for CanRead(buffer, offset, 4); a value from
\* 2^31 on is read as 2^31 - 1, the largest integer of this model, which is
\* beyond the length of every buffer here just as the true value is
ReadUInt32BE(buffer, offset) ==
  IF buffer[offset + 1] >= 128 THEN 2147483647
  ELSE ((buffer[offset + 1] * 256 + buffer[offset + 2]) * 256
           + buffer[offset + 3]) * 256 + buffer[offset + 4]

\* buffer.readInt8(offset)
ReadInt8(buffer, offset) ==
  LET b == buffer[offset + 1] IN
  IF b < 128 THEN JsInt(0, b) ELSE JsInt(-1, 65536 - 256 + b)

\* buffer.readInt16BE(offset)
ReadInt16BE(buffer, offset) ==
  LET w == buffer[offset + 1] * 256 + buffer[offset + 2] IN
  IF w < 32768 THEN JsInt(0, w) ELSE JsInt(-1, w)

\* buffer.readInt32BE(offset)
ReadInt32BE(buffer, offset) ==
  LET h == buffer[offset + 1] * 256 + buffer[offset + 2]
      l == buffer[offset + 3] * 256 + buffer[offset + 4]
  IN JsInt(IF h < 32768 THEN h ELSE h - 65536, l)

\* offset + length, held at the end of the buffer: every read from the end
\* of the buffer on throws alike, and subarray stops at the end
Advance(buffer, offset, length) ==
  IF length > Len(buffer) - offset THEN Len(buffer) ELSE offset + length

\* obj[key] = value on the pairs of an object whose keys are not
\* integer-like: a key already there keeps its place, a new key goes last
ObjectSet(pairs, key, value) ==
  IF \E i \in 1..Len(pairs) : pairs[i].key = key
    THEN [i \in 1..Len(pairs) |->
            IF pairs[i].key = key THEN [key |-> key, value |-> value] ELSE pairs[i]]
    ELSE Append(pairs, [key |-> key, value |-> value])

\* the property key a decoded value becomes: the bytes of a string (another
\* value stands for its String() form)
PropertyKey(value) == IF value.type = "string" THEN value.chars ELSE value

RECURSIVE DecodeValue(_, _)
RECURSIVE DecodeItems(_, _, _, _)
RECURSIVE DecodePairs(_, _, _, _)

\* the loop of the ARRAY case: n more items from offset, pushed onto arr
DecodeItems(buffer, offset, n, arr) ==
  IF n = 0 THEN [throws |-> FALSE, value |-> JsArray(arr), newOffset |-> offset]
  ELSE LET result == DecodeValue(buffer, offset) IN
       IF result.throws THEN result
       ELSE DecodeItems(buffer, result.newOffset, n - 1, Append(arr, result.value))

\* the loop of the OBJECT case: n more (key, value) pairs from offset
DecodePairs(buffer, offset, n, obj) ==
  IF n = 0 THEN [throws |-> FALSE, value |-> JsObject(obj), newOffset |-> offset]
  ELSE LET keyResult == DecodeValue(buffer, offset) IN
       IF keyResult.throws THEN keyResult
       ELSE LET valueResult == DecodeValue(buffer, keyResult.newOffset) IN
            IF valueResult.throws THEN valueResult
            ELSE DecodePairs(buffer, valueResult.newOffset, n - 1,
                             ObjectSet(obj, PropertyKey(keyResult.value),
                                       valueResult.value))

\* decodeValue(buffer, offset): the value and the offset after it, or the fault
DecodeValue(buffer, offset) ==
  IF ~CanRead(buffer, offset, 1) THEN Thrown("ERR_OUT_OF_RANGE")
  ELSE
  LET type == buffer[offset + 1]
      at == offset + 1
  IN
  CASE type = NULL -> [throws |-> FALSE, value |-> JsNull, newOffset |-> at]
    [] type = BOOL ->
         IF ~CanRead(buffer, at, 1) THEN Thrown("ERR_OUT_OF_RANGE")
         ELSE [throws |-> FALSE, value |-> JsBool(buffer[at + 1] = 1),
               newOffset |-> at + 1]
    [] type = INT8 ->
         IF ~CanRead(buffer, at, 1) THEN Thrown("ERR_OUT_OF_RANGE")
         ELSE [throws |-> FALSE, value |-> ReadInt8(buffer, at), newOffset |-> at + 1]
    [] type = INT16 ->
         IF ~CanRead(buffer, at, 2) THEN Thrown("ERR_OUT_OF_RANGE")
         ELSE [throws |-> FALSE, value |-> ReadInt16BE(buffer, at), newOffset |-> at + 2]
    [] type = INT32 ->
         IF ~CanRead(buffer, at, 4) THEN Thrown("ERR_OUT_OF_RANGE")
         ELSE [throws |-> FALSE, value |-> ReadInt32BE(buffer, at), newOffset |-> at + 4]
    [] type = FLOAT64 ->
         IF ~CanRead(buffer, at, 8) THEN Thrown("ERR_OUT_OF_RANGE")
         ELSE [throws |-> FALSE, value |-> JsFloat(SubSeq(buffer, at + 1, at + 8)),
               newOffset |-> at + 8]
    [] type = STRING_TYPE ->
         IF ~CanRead(buffer, at, 4) THEN Thrown("ERR_OUT_OF_RANGE")
         ELSE LET strLen == ReadUInt32BE(buffer, at)
                  end == Advance(buffer, at + 4, strLen)
              IN [throws |-> FALSE,
                  value |-> JsString(SubSeq(buffer, at + 4 + 1, end)),
                  newOffset |-> end]
    [] type = ARRAY ->
         IF ~CanRead(buffer, at, 4) THEN Thrown("ERR_OUT_OF_RANGE")
         ELSE DecodeItems(buffer, at + 4, ReadUInt32BE(buffer, at), <<>>)
    [] type = OBJECT ->
         IF ~CanRead(buffer, at, 4) THEN Thrown("ERR_OUT_OF_RANGE")
         ELSE DecodePairs(buffer, at + 4, ReadUInt32BE(buffer, at), <<>>)
    [] OTHER -> Thrown("Unknown A114 data type")

\* decodePayload(payload): the first value; bytes after it are not looked at
DecodePayload(payload) ==
  LET result == DecodeValue(payload, 0) IN
  IF result.throws THEN result ELSE Returned(result.value)

\* parseHeader(header): the payload length, or the fault
ParseHeader(header) ==
  IF header[1] # 161 \/ header[2] # 20
    THEN Thrown("Invalid A114 packet: wrong magic bytes")
  ELSE IF header[3] # VERSION THEN Thrown("Unsupported A114 version")
  ELSE [throws |-> FALSE, payloadLength |-> ReadUInt32BE(header, 4)]

\* decode without the comparison of the declared and the actual payload length
DecodeAnyLength(buffer) ==
  IF Len(buffer) < HEADER_SIZE THEN Thrown("Invalid A114 packet: too short")
  ELSE LET header == ParseHeader(SubSeq(buffer, 1, HEADER_SIZE))
           payload == SubSeq(buffer, HEADER_SIZE + 1, Len(buffer))
       IN IF header.throws THEN header ELSE DecodePayload(payload)

\* decode(buffer): the value of the packet, or the fault
Decode(buffer) ==
  IF Len(buffer) < HEADER_SIZE THEN Thrown("Invalid A114 packet: too short")
  ELSE LET header == ParseHeader(SubSeq(buffer, 1, HEADER_SIZE))
           payload == SubSeq(buffer, HEADER_SIZE + 1, Len(buffer))
       IN IF header.throws THEN header
          ELSE IF Len(payload) # header.payloadLength
            THEN Thrown("Invalid A114 packet: payload length mismatch")
          ELSE DecodePayload(payload)

\* COMMANDS, in the order of Object.keys
COMMANDS ==
  << [name |-> "INIT", code |-> 1], [name |-> "TERM", code |-> 2],
     [name |-> "ACK", code |-> 3], [name |-> "NACK", code |-> 4],
     [name |-> "SEND", code |-> 16], [name |-> "RECV", code |-> 17],
     [name |-> "PUSH", code |-> 18], [name |-> "PULL", code |-> 19],
     [name |-> "STORE", code |-> 32], [name |-> "LOAD", code |-> 33],
     [name |-> "CLEAR", code |-> 34], [name |-> "SYNC", code |-> 35],
     [name |-> "EXEC", code |-> 48], [name |-> "EVAL", code |-> 49],
     [name |-> "COMP", code |-> 50], [name |-> "OPTIM", code |-> 51],
     [name |-> "STAT", code |-> 64], [name |-> "CONF", code |-> 65],
     [name |-> "DIAG", code |-> 66], [name |-> "RESET", code |-> 67] >>

CommandNames == {COMMANDS[i].name : i \in 1..Len(COMMANDS)}

\* property names every object literal inherits from Object.prototype
ObjectPrototypeNames ==
  {"constructor", "toString", "valueOf", "hasOwnProperty", "__proto__"}

\* an inherited property's value: a function or an object, not undefined
Inherited(name) == [type |-> "inherited", name |-> name]

\* this.COMMANDS[command]: the table's own key, else what the prototype
\* chain holds under the name, else undefined
CommandCode(command) ==
  IF command \in CommandNames
    THEN JsInt(0, COMMANDS[CHOOSE i \in 1..Len(COMMANDS) : COMMANDS[i].name = command].code)
  ELSE IF command \in ObjectPrototypeNames THEN Inherited(command)
  ELSE JsUndefined

\* the truth value of a structured value in a condition
JsTruthy(value) ==
  CASE value.type \in {"null", "undefined"} -> FALSE
    [] value.type = "boolean" -> value.b
    [] value.type = "number" -> ~(value.hi = 0 /\ value.lo = 0)
    [] value.type = "string" -> value.chars # <<>>
    [] OTHER -> TRUE

\* Buffer.from([commandCode]): the byte of a number; what is not a number
\* converts to NaN and is stored as 0
CommandByte(commandCode) ==
  IF commandCode.type = "number" THEN commandCode.lo % 256 ELSE 0

\* createCommand(command, data): the packet, or the fault
CreateCommand(command, data) ==
  LET commandCode == CommandCode(command) IN
  IF commandCode = JsUndefined THEN Thrown("Unknown A114 command")
  ELSE LET dataBuf == IF JsTruthy(data) THEN EncodeValue(data)
                      ELSE [throws |-> FALSE, bytes |-> <<>>]
       IN IF dataBuf.throws THEN dataBuf
          ELSE [throws |-> FALSE, bytes |-> <<CommandByte(commandCode)>> \o dataBuf.bytes]

\* the keys of COMMANDS whose code is commandCode, in the order of the table
RECURSIVE FindCommands(_, _)
FindCommands(table, commandCode) ==
  IF table = <<>> THEN <<>>
  ELSE IF Head(table).code = commandCode
    THEN <<Head(table).name>> \o FindCommands(Tail(table), commandCode)
    ELSE FindCommands(Tail(table), commandCode)

\* parseCommand(buffer): { command, data }, or the fault
ParseCommand(buffer) ==
  IF Len(buffer) = 0 THEN Thrown("Empty A114 command packet")
  ELSE LET found == FindCommands(COMMANDS, buffer[1]) IN
       IF found = <<>> THEN Thrown("Unknown A114 command code")
       ELSE IF Len(buffer) > 1
         THEN LET data == DecodePayload(SubSeq(buffer, 2, Len(buffer))) IN
              IF data.throws THEN data
              ELSE Returned([command |-> Head(found), data |-> data.value])
         ELSE Returned([command |-> Head(found), data |-> JsUndefined])

(***************************************************************************)
(* TokenOptimizer.  A string is the sequence of the codes of its            *)
(* characters, all ASCII here; a word character is a letter, a digit or     *)
(* the underscore, as for \\b in a regular expression.                      *)
(***************************************************************************)
IsUpper(ch) == ch >= 65 /\ ch <= 90
IsLower(ch) == ch >= 97 /\ ch <= 122
IsWordChar(ch) == IsUpper(ch) \/ IsLower(ch) \/ (ch >= 48 /\ ch <= 57) \/ ch = 95
\* \\s: space, tab, line feed, vertical tab, form feed, carriage return
IsSpace(ch) == ch = 32 \/ (ch >= 9 /\ ch <= 13)

\* text.toLowerCase()
ToLowerCase(text) == [i \in 1..Len(text) |-> IF IsUpper(text[i]) THEN text[i] + 32 ELSE text[i]]
\* char.toUpperCase()
ToUpperCase(text) == [i \in 1..Len(text) |-> IF IsLower(text[i]) THEN text[i] - 32 ELSE text[i]]

\* commonTerms of initializeAbbreviations, in the order of Object.entries
CommonTerms ==
  << [full |-> <<97, 114, 116, 105, 102, 105, 99, 105, 97, 108, 95, 105, 110, 116, 101, 108, 108, 105, 103, 101, 110, 99, 101>>, abbrev |-> <<97, 105>>],  \* artificial_intelligence: ai
     [full |-> <<109, 97, 99, 104, 105, 110, 101, 95, 108, 101, 97, 114, 110, 105, 110, 103>>, abbrev |-> <<109, 108>>],  \* machine_learning: ml
     [full |-> <<110, 101, 117, 114, 97, 108, 95, 110, 101, 116, 119, 111, 114, 107>>, abbrev |-> <<110, 110>>],  \* neural_network: nn
     [full |-> <<100, 101, 101, 112, 95, 108, 101, 97, 114, 110, 105, 110, 103>>, abbrev |-> <<100, 108>>],  \* deep_learning: dl
     [full |-> <<110, 97, 116, 117, 114, 97, 108, 95, 108, 97, 110, 103, 117, 97, 103, 101, 95, 112, 114, 111, 99, 101, 115, 115, 105, 110, 103>>, abbrev |-> <<110, 108, 112>>],  \* natural_language_processing: nlp
     [full |-> <<99, 111, 109, 112, 117, 116, 101, 114, 95, 118, 105, 115, 105, 111, 110>>, abbrev |-> <<99, 118>>],  \* computer_vision: cv
     [full |-> <<114, 101, 105, 110, 102, 111, 114, 99, 101, 109, 101, 110, 116, 95, 108, 101, 97, 114, 110, 105, 110, 103>>, abbrev |-> <<114, 108>>],  \* reinforcement_learning: rl
     [full |-> <<102, 117, 110, 99, 116, 105, 111, 110>>, abbrev |-> <<102, 110>>],  \* function: fn
     [full |-> <<118, 97, 114, 105, 97, 98, 108, 101>>, abbrev |-> <<118, 97, 114>>],  \* variable: var
     [full |-> <<111, 98, 106, 101, 99, 116>>, abbrev |-> <<111, 98, 106>>],  \* object: obj
     [full |-> <<97, 114, 114, 97, 121>>, abbrev |-> <<97, 114, 114>>],  \* array: arr
     [full |-> <<115, 116, 114, 105, 110, 103>>, abbrev |-> <<115, 116, 114>>],  \* string: str
     [full |-> <<110, 117, 109, 98, 101, 114>>, abbrev |-> <<110, 117, 109>>],  \* number: num
     [full |-> <<98, 111, 111, 108, 101, 97, 110>>, abbrev |-> <<98, 111, 111, 108>>],  \* boolean: bool
     [full |-> <<117, 110, 100, 101, 102, 105, 110, 101, 100>>, abbrev |-> <<117, 110, 100, 101, 102>>],  \* undefined: undef
     [full |-> <<110, 117, 108, 108>>, abbrev |-> <<110, 105, 108>>],  \* null: nil
     [full |-> <<109, 101, 115, 115, 97, 103, 101>>, abbrev |-> <<109, 115, 103>>],  \* message: msg
     [full |-> <<114, 101, 113, 117, 101, 115, 116>>, abbrev |-> <<114, 101, 113>>],  \* request: req
     [full |-> <<114, 101, 115, 112, 111, 110, 115, 101>>, abbrev |-> <<114, 101, 115>>],  \* response: res
     [full |-> <<101, 114, 114, 111, 114>>, abbrev |-> <<101, 114, 114>>],  \* error: err
     [full |-> <<115, 117, 99, 99, 101, 115, 115>>, abbrev |-> <<111, 107>>],  \* success: ok
     [full |-> <<102, 97, 105, 108, 101, 100>>, abbrev |-> <<102, 97, 105, 108>>],  \* failed: fail
     [full |-> <<112, 114, 111, 99, 101, 115, 115, 105, 110, 103>>, abbrev |-> <<112, 114, 111, 99>>],  \* processing: proc
     [full |-> <<111, 112, 116, 105, 109, 105, 122, 97, 116, 105, 111, 110>>, abbrev |-> <<111, 112, 116>>],  \* optimization: opt
     [full |-> <<99, 111, 110, 102, 105, 103, 117, 114, 97, 116, 105, 111, 110>>, abbrev |-> <<99, 102, 103>>],  \* configuration: cfg
     [full |-> <<112, 97, 114, 97, 109, 101, 116, 101, 114>>, abbrev |-> <<112, 97, 114, 97, 109>>],  \* parameter: param
     [full |-> <<97, 114, 103, 117, 109, 101, 110, 116>>, abbrev |-> <<97, 114, 103>>],  \* argument: arg
     [full |-> <<114, 101, 115, 117, 108, 116>>, abbrev |-> <<114, 101, 115>>],  \* result: res
     [full |-> <<100, 97, 116, 97>>, abbrev |-> <<100, 97, 116>>],  \* data: dat
     [full |-> <<105, 110, 102, 111, 114, 109, 97, 116, 105, 111, 110>>, abbrev |-> <<105, 110, 102, 111>>],  \* information: info
     [full |-> <<99, 111, 110, 116, 101, 110, 116>>, abbrev |-> <<99, 111, 110, 116>>],  \* content: cont
     [full |-> <<99, 111, 110, 116, 101, 120, 116>>, abbrev |-> <<99, 116, 120>>],  \* context: ctx
     [full |-> <<109, 101, 109, 111, 114, 121>>, abbrev |-> <<109, 101, 109>>],  \* memory: mem
     [full |-> <<99, 97, 99, 104, 101>>, abbrev |-> <<99, 99, 104>>],  \* cache: cch
     [full |-> <<115, 116, 111, 114, 97, 103, 101>>, abbrev |-> <<115, 116, 111, 114>>],  \* storage: stor
     [full |-> <<116, 105, 109, 101, 115, 116, 97, 109, 112>>, abbrev |-> <<116, 115>>],  \* timestamp: ts
     [full |-> <<105, 100, 101, 110, 116, 105, 102, 105, 101, 114>>, abbrev |-> <<105, 100>>],  \* identifier: id
     [full |-> <<112, 114, 105, 111, 114, 105, 116, 121>>, abbrev |-> <<112, 114, 105>>],  \* priority: pri
     [full |-> <<115, 116, 97, 116, 117, 115>>, abbrev |-> <<115, 116, 97, 116>>],  \* status: stat
     [full |-> <<116, 121, 112, 101>>, abbrev |-> <<116, 121, 112>>],  \* type: typ
     [full |-> <<118, 97, 108, 117, 101>>, abbrev |-> <<118, 97, 108>>],  \* value: val
     [full |-> <<107, 101, 121>>, abbrev |-> <<107>>],  \* key: k
     [full |-> <<105, 110, 100, 101, 120>>, abbrev |-> <<105, 100, 120>>],  \* index: idx
     [full |-> <<108, 101, 110, 103, 116, 104>>, abbrev |-> <<108, 101, 110>>],  \* length: len
     [full |-> <<115, 105, 122, 101>>, abbrev |-> <<115, 122>>],  \* size: sz
     [full |-> <<99, 111, 117, 110, 116>>, abbrev |-> <<99, 110, 116>>],  \* count: cnt
     [full |-> <<116, 111, 116, 97, 108>>, abbrev |-> <<116, 111, 116>>],  \* total: tot
     [full |-> <<109, 97, 120, 105, 109, 117, 109>>, abbrev |-> <<109, 97, 120>>],  \* maximum: max
     [full |-> <<109, 105, 110, 105, 109, 117, 109>>, abbrev |-> <<109, 105, 110>>],  \* minimum: min
     [full |-> <<97, 118, 101, 114, 97, 103, 101>>, abbrev |-> <<97, 118, 103>>],  \* average: avg
     [full |-> <<97, 108, 103, 111, 114, 105, 116, 104, 109>>, abbrev |-> <<97, 108, 103, 111>>],  \* algorithm: algo
     [full |-> <<112, 114, 111, 116, 111, 99, 111, 108>>, abbrev |-> <<112, 114, 111, 116, 111>>],  \* protocol: proto
     [full |-> <<105, 110, 116, 101, 114, 102, 97, 99, 101>>, abbrev |-> <<105, 102, 97, 99, 101>>],  \* interface: iface
     [full |-> <<105, 109, 112, 108, 101, 109, 101, 110, 116, 97, 116, 105, 111, 110>>, abbrev |-> <<105, 109, 112, 108>>],  \* implementation: impl
     [full |-> <<115, 112, 101, 99, 105, 102, 105, 99, 97, 116, 105, 111, 110>>, abbrev |-> <<115, 112, 101, 99>>],  \* specification: spec
     [full |-> <<100, 111, 99, 117, 109, 101, 110, 116, 97, 116, 105, 111, 110>>, abbrev |-> <<100, 111, 99>>],  \* documentation: doc
     [full |-> <<114, 101, 102, 101, 114, 101, 110, 99, 101>>, abbrev |-> <<114, 101, 102>>],  \* reference: ref
     [full |-> <<118, 101, 114, 115, 105, 111, 110>>, abbrev |-> <<118, 101, 114>>],  \* version: ver
     [full |-> <<114, 101, 118, 105, 115, 105, 111, 110>>, abbrev |-> <<114, 101, 118>>],  \* revision: rev
     [full |-> <<105, 116, 101, 114, 97, 116, 105, 111, 110>>, abbrev |-> <<105, 116, 101, 114>>],  \* iteration: iter
     [full |-> <<101, 120, 101, 99, 117, 116, 105, 111, 110>>, abbrev |-> <<101, 120, 101, 99>>],  \* execution: exec
     [full |-> <<101, 118, 97, 108, 117, 97, 116, 105, 111, 110>>, abbrev |-> <<101, 118, 97, 108>>],  \* evaluation: eval
     [full |-> <<118, 97, 108, 105, 100, 97, 116, 105, 111, 110>>, abbrev |-> <<118, 97, 108, 105, 100>>],  \* validation: valid
     [full |-> <<118, 101, 114, 105, 102, 105, 99, 97, 116, 105, 111, 110>>, abbrev |-> <<118, 101, 114, 105, 102, 121>>],  \* verification: verify
     [full |-> <<105, 110, 105, 116, 105, 97, 108, 105, 122, 97, 116, 105, 111, 110>>, abbrev |-> <<105, 110, 105, 116>>],  \* initialization: init
     [full |-> <<116, 101, 114, 109, 105, 110, 97, 116, 105, 111, 110>>, abbrev |-> <<116, 101, 114, 109>>],  \* termination: term
     [full |-> <<99, 111, 110, 110, 101, 99, 116, 105, 111, 110>>, abbrev |-> <<99, 111, 110, 110>>],  \* connection: conn
     [full |-> <<115, 101, 115, 115, 105, 111, 110>>, abbrev |-> <<115, 101, 115, 115>>],  \* session: sess
     [full |-> <<116, 114, 97, 110, 115, 97, 99, 116, 105, 111, 110>>, abbrev |-> <<116, 120, 110>>],  \* transaction: txn
     [full |-> <<111, 112, 101, 114, 97, 116, 105, 111, 110>>, abbrev |-> <<111, 112>>],  \* operation: op
     [full |-> <<105, 110, 115, 116, 114, 117, 99, 116, 105, 111, 110>>, abbrev |-> <<105, 110, 115, 116, 114>>],  \* instruction: instr
     [full |-> <<99, 111, 109, 109, 97, 110, 100>>, abbrev |-> <<99, 109, 100>>],  \* command: cmd
     [full |-> <<113, 117, 101, 114, 121>>, abbrev |-> <<113, 114, 121>>],  \* query: qry
     [full |-> <<115, 101, 97, 114, 99, 104>>, abbrev |-> <<115, 114, 99, 104>>],  \* search: srch
     [full |-> <<102, 105, 108, 116, 101, 114>>, abbrev |-> <<102, 108, 116>>],  \* filter: flt
     [full |-> <<115, 111, 114, 116>>, abbrev |-> <<115, 114, 116>>],  \* sort: srt
     [full |-> <<116, 114, 97, 110, 115, 102, 111, 114, 109>>, abbrev |-> <<120, 102, 114, 109>>],  \* transform: xfrm
     [full |-> <<99, 111, 110, 118, 101, 114, 116>>, abbrev |-> <<99, 111, 110, 118>>],  \* convert: conv
     [full |-> <<101, 110, 99, 111, 100, 101>>, abbrev |-> <<101, 110, 99>>],  \* encode: enc
     [full |-> <<100, 101, 99, 111, 100, 101>>, abbrev |-> <<100, 101, 99>>],  \* decode: dec
     [full |-> <<99, 111, 109, 112, 114, 101, 115, 115>>, abbrev |-> <<99, 111, 109, 112>>],  \* compress: comp
     [full |-> <<100, 101, 99, 111, 109, 112, 114, 101, 115, 115>>, abbrev |-> <<100, 101, 99, 111, 109, 112>>],  \* decompress: decomp
     [full |-> <<115, 101, 114, 105, 97, 108, 105, 122, 101>>, abbrev |-> <<115, 101, 114>>],  \* serialize: ser
     [full |-> <<100, 101, 115, 101, 114, 105, 97, 108, 105, 122, 101>>, abbrev |-> <<100, 101, 115, 101, 114>>] >>  \* deserialize: deser

\* this.abbreviations: full -> abbrev, in insertion order
Abbreviations == [i \in 1..Len(CommonTerms) |->
                    [key |-> CommonTerms[i].full, value |-> CommonTerms[i].abbrev]]

\* this.reverseAbbreviations: abbrev -> full; a later set() of an abbrev
\* already there replaces its full and keeps its place
RECURSIVE ReverseOf(_, _)
ReverseOf(terms, map) ==
  IF terms = <<>> THEN map
  ELSE ReverseOf(Tail(terms), ObjectSet(map, Head(terms).abbrev, Head(terms).full))

ReverseAbbreviations == ReverseOf(CommonTerms, <<>>)

\* the length of the run of word characters text begins with
RECURSIVE RunLen(_)
RunLen(text) ==
  IF text = <<>> \/ ~IsWordChar(Head(text)) THEN 0 ELSE 1 + RunLen(Tail(text))

\* what the loop over the entries of a map makes of one whole word: each
\* entry in order replaces the word when it equals the entry's key, whatever
\* the case
RECURSIVE ReplaceRun(_, _)
ReplaceRun(run, map) ==
  IF map = <<>> THEN run
  ELSE IF ToLowerCase(run) = ToLowerCase(Head(map).key)
    THEN ReplaceRun(Head(map).value, Tail(map))
    ELSE ReplaceRun(run, Tail(map))

\* for (const [key, value] of map.entries())
\*   text = text.replace(new RegExp('\\b' + key + '\\b', 'gi'), value):
\* keys and values are made of word characters, so each replace turns whole
\* words into whole words and the loop acts on every word of text by itself
RECURSIVE ReplaceWords(_, _)
ReplaceWords(text, map) ==
  IF text = <<>> THEN <<>>
  ELSE IF ~IsWordChar(Head(text)) THEN <<Head(text)>> \o ReplaceWords(Tail(text), map)
  ELSE LET n == RunLen(text) IN
       ReplaceRun(SubSeq(text, 1, n), map)
         \o ReplaceWords(SubSeq(text, n + 1, Len(text)), map)

\* text without the white space it begins with
RECURSIVE TrimStart(_)
TrimStart(text) ==
  IF text # <<>> /\ IsSpace(Head(text)) THEN TrimStart(Tail(text)) ELSE text

\* text.replace(/\\s+/g, ' ')
RECURSIVE CollapseSpaces(_)
CollapseSpaces(text) ==
  IF text = <<>> THEN <<>>
  ELSE IF IsSpace(Head(text)) THEN <<32>> \o CollapseSpaces(TrimStart(text))
  ELSE <<Head(text)>> \o CollapseSpaces(Tail(text))

\* text.trim()
RECURSIVE TrimEnd(_)
TrimEnd(text) ==
  IF text # <<>> /\ IsSpace(text[Len(text)])
    THEN TrimEnd(SubSeq(text, 1, Len(text) - 1)) ELSE text

Trim(text) == TrimEnd(TrimStart(text))

\* '__ZLIB__'
ZlibMark == <<95, 95, 90, 76, 73, 66, 95, 95>>

StartsWith(text, prefix) ==
  Len(text) >= Len(prefix) /\ SubSeq(text, 1, Len(prefix)) = prefix
EndsWith(text, suffix) ==
  Len(text) >= Len(suffix) /\ SubSeq(text, Len(text) - Len(suffix) + 1, Len(text)) = suffix

\* compressString(text), for a text that stays within compressionThreshold
\* (100 characters), as every text here does: zlib is not applied
CompressString(text) ==
  Trim(CollapseSpaces(ReplaceWords(ToLowerCase(text), Abbreviations)))

\* decompressString(text): a text marked '__ZLIB__' that does not inflate is
\* returned as it is
DecompressString(text) ==
  IF StartsWith(text, ZlibMark) THEN text
  ELSE ReplaceWords(text, ReverseAbbreviations)

\* key.replace(/([a-z])([A-Z])/g, '$1_$2'): an underscore between a lower-case
\* letter and the upper-case letter after it
RECURSIVE SnakeCase(_)
SnakeCase(key) ==
  IF Len(key) < 2 THEN key
  ELSE IF IsLower(key[1]) /\ IsUpper(key[2])
    THEN <<key[1], 95>> \o SnakeCase(Tail(key))
    ELSE <<key[1]>> \o SnakeCase(Tail(key))

\* key.replace(/_([a-z])/g, (_, char) => char.toUpperCase())
RECURSIVE CamelCase(_)
CamelCase(key) ==
  IF Len(key) < 2 THEN key
  ELSE IF key[1] = 95 /\ IsLower(key[2])
    THEN ToUpperCase(<<key[2]>>) \o CamelCase(SubSeq(key, 3, Len(key)))
    ELSE <<key[1]>> \o CamelCase(Tail(key))

\* the replacements of compressKey anchored at the start, in order
KeyPrefixes ==
  << [from |-> <<103, 101, 116, 95>>, to |-> <<103, 95>>],  \* get_: g_
     [from |-> <<115, 101, 116, 95>>, to |-> <<115, 95>>],  \* set_: s_
     [from |-> <<105, 115, 95>>, to |-> <<105, 95>>],  \* is_: i_
     [from |-> <<104, 97, 115, 95>>, to |-> <<104, 95>>] >>  \* has_: h_

\* the replacements of compressKey anchored at the end, in order
KeySuffixes ==
  << [from |-> <<95, 105, 100>>, to |-> <<95, 105>>],  \* _id: _i
     [from |-> <<95, 110, 97, 109, 101>>, to |-> <<95, 110>>],  \* _name: _n
     [from |-> <<95, 116, 121, 112, 101>>, to |-> <<95, 116>>],  \* _type: _t
     [from |-> <<95, 118, 97, 108, 117, 101>>, to |-> <<95, 118>>],  \* _value: _v
     [from |-> <<95, 100, 97, 116, 97>>, to |-> <<95, 100>>],  \* _data: _d
     [from |-> <<95, 105, 110, 102, 111>>, to |-> <<95, 105, 110, 102>>],  \* _info: _inf
     [from |-> <<95, 99, 111, 110, 102, 105, 103>>, to |-> <<95, 99, 102, 103>>],  \* _config: _cfg
     [from |-> <<95, 114, 101, 115, 117, 108, 116>>, to |-> <<95, 114, 101, 115>>] >>  \* _result: _res

\* key.replace(/^from/, to)
ReplacePrefix(key, from, to) ==
  IF StartsWith(key, from) THEN to \o SubSeq(key, Len(from) + 1, Len(key)) ELSE key
\* key.replace(/from$/, to)
ReplaceSuffix(key, from, to) ==
  IF EndsWith(key, from) THEN SubSeq(key, 1, Len(key) - Len(from)) \o to ELSE key

\* the chain of replacements at the start: forward (from -> to) or back
RECURSIVE ReplacePrefixes(_, _, _)
ReplacePrefixes(key, rules, forward) ==
  IF rules = <<>> THEN key
  ELSE ReplacePrefixes(IF forward THEN ReplacePrefix(key, Head(rules).from, Head(rules).to)
                       ELSE ReplacePrefix(key, Head(rules).to, Head(rules).from),
                       Tail(rules), forward)

\* the chain of replacements at the end: forward (from -> to) or back
RECURSIVE ReplaceSuffixes(_, _, _)
ReplaceSuffixes(key, rules, forward) ==
  IF rules = <<>> THEN key
  ELSE ReplaceSuffixes(IF forward THEN ReplaceSuffix(key, Head(rules).from, Head(rules).to)
                       ELSE ReplaceSuffix(key, Head(rules).to, Head(rules).from),
                       Tail(rules), forward)

\* map.has(key) and map.get(key)
MapHas(map, key) == \E i \in 1..Len(map) : map[i].key = key
MapGet(map, key) == map[CHOOSE i \in 1..Len(map) : map[i].key = key].value

\* compressKey(key)
CompressKey(key) ==
  IF MapHas(Abbreviations, key) THEN MapGet(Abbreviations, key)
  ELSE ReplaceSuffixes(ReplacePrefixes(ToLowerCase(SnakeCase(key)), KeyPrefixes, TRUE),
                       KeySuffixes, TRUE)

\* decompressKey(key)
DecompressKey(key) ==
  IF MapHas(ReverseAbbreviations, key) THEN MapGet(ReverseAbbreviations, key)
  ELSE CamelCase(ReplaceSuffixes(ReplacePrefixes(key, KeyPrefixes, FALSE),
                                 KeySuffixes, FALSE))

\* Object.entries(obj): the pairs of an object; of an array, its items under
\* the keys '0', '1', ... (fewer than 10 items here)
EntriesOf(obj) ==
  IF obj.type = "array"
    THEN [i \in 1..Len(obj.items) |-> [key |-> <<48 + i - 1>>, value |-> obj.items[i]]]
    ELSE obj.pairs

RECURSIVE Compress(_)
RECURSIVE CompressEntries(_, _)
RECURSIVE Decompress(_)
RECURSIVE DecompressEntries(_, _)

\* the loop of compressObject over Object.entries(obj)
CompressEntries(entries, compressed) ==
  IF entries = <<>> THEN JsObject(compressed)
  ELSE CompressEntries(Tail(entries),
                       ObjectSet(compressed, CompressKey(Head(entries).key),
                                 Compress(Head(entries).value)))

\* TokenOptimizer.compress(data): typeof 'object' holds for null, for a plain
\* object and for an array, so an array is compressed as an object and the
\* Array.isArray branch is never taken
Compress(data) ==
  CASE data.type = "string" -> JsString(CompressString(data.chars))
    [] data.type = "null" -> data
    [] data.type \in {"object", "array"} -> CompressEntries(EntriesOf(data), <<>>)
    [] OTHER -> data

\* the loop of decompressObject over Object.entries(obj)
DecompressEntries(entries, decompressed) ==
  IF entries = <<>> THEN JsObject(decompressed)
  ELSE DecompressEntries(Tail(entries),
                         ObjectSet(decompressed, DecompressKey(Head(entries).key),
                                   Decompress(Head(entries).value)))

\* TokenOptimizer.decompress(data)
Decompress(data) ==
  CASE data.type = "string" -> JsString(DecompressString(data.chars))
    [] data.type \in {"object", "array"} -> DecompressEntries(EntriesOf(data), <<>>)
    [] OTHER -> data

(***************************************************************************)
(* AIProcessingLayer.                                                      *)
(***************************************************************************)
INSTRUCTION == 0
EncJSON == 0
EncA114 == 2

AgentIds == {"", "A", "B"}

\* the agent objects a caller holds; "b1" and "b2" both carry the id "B"
AgentObjs == {"e1", "a1", "b1", "b2"}
IdOf == [o \in AgentObjs |-> CASE o = "e1" -> "" [] o = "a1" -> "A" [] OTHER -> "B"]

NoAgent == "none"            \* agents.get(id) of an id that is not registered
Undefined == "<undefined>"   \* an omitted argument

Slots == {1, 2}
IdleCall == [pc |-> "idle"]

MsgKey(id) == "msg_" \o id
LearningKey(t) == "learning_" \o ToString(t)

Registered(ag) == {i \in AgentIds : ag[i] # NoAgent}

\* registerAgent with an insert that keeps an id already present
RegisterAgentKeep(ag, o) == IF ag[IdOf[o]] # NoAgent THEN ag ELSE [ag EXCEPT ![IdOf[o]] = o]

\* registerAgent as a registry that holds the latest agent only
RegisterAgentAlone(ag, o) == [i \in AgentIds |-> IF i = IdOf[o] THEN o ELSE NoAgent]

\* registerAgent(agent): agents.set(agent.id, agent)
RegisterAgent(ag, o) == [ag EXCEPT ![IdOf[o]] = o]

\* the registration check of sendMessage, testing the receiver only
ReceiverRegistered(ag, m) == ag[m.receiverId] # NoAgent

\* the registration check of sendMessage
BothRegistered(ag, m) == ag[m.senderId] # NoAgent /\ ag[m.receiverId] # NoAgent

\* optimizeMessage(message): the compact message, or the fault of the codec
OptimizeMessage(m) ==
  LET compact == [i |-> m.id, t |-> m.timestamp, s |-> m.senderId, r |-> m.receiverId,
                  c |-> m.content, mt |-> m.messageType, p |-> m.priority,
                  cp |-> m.compressed, e |-> m.encoding]
  IN IF m.encoding = EncA114
       THEN LET enc == Encode(m.content) IN
            IF enc.throws THEN enc
            ELSE Returned([compact EXCEPT !.c = JsBuffer(enc.bytes), !.cp = TRUE])
       ELSE Returned([compact EXCEPT !.c = Compress(m.content), !.cp = TRUE])

\* routeMessage up to its await: the cache.set of the compact message
RouteCache(c, compact, t) == CacheSet(c, MsgKey(compact.i), compact, RouteTtl, compact.p, t)

\* a route that writes the receiver's memory under the bare message id
RouteMemoryBareId(mem, compact) ==
  MapSet(mem, compact.i,
         [content |-> compact.c, sender |-> compact.s, timestamp |-> compact.t])

\* routeMessage after its await: the entry written to the receiver's memory
RouteMemory(mem, compact) ==
  MapSet(mem, MsgKey(compact.i),
         [content |-> compact.c, sender |-> compact.s, timestamp |-> compact.t])

\* testMessageDelivery: receiver_memory, cache_storage, message_integrity
TestMessageDelivery(ag, mem, c, t, compact) ==
  LET receiver == ag[compact.r] IN
  << receiver # NoAgent /\ MsgKey(compact.i) \in DOMAIN mem[receiver],
     CacheHas(c, MsgKey(compact.i), t),
     TRUE >>

\* a test of the results that is content with one success
AnyPass(testResults) == \E i \in 1..Len(testResults) : testResults[i]

\* testResults.every(r => r.success)
AllPass(testResults) == \A i \in 1..Len(testResults) : testResults[i]

\* generateFeedback(testResults)
GenerateFeedback(testResults) ==
  LET successCount == Cardinality({i \in 1..Len(testResults) : testResults[i]})
      totalTests == Len(testResults)
  IN IF successCount = totalTests
       THEN "All delivery tests passed successfully"
       ELSE ToString(successCount) \o "/" \o ToString(totalTests)
            \o " tests passed. Issues detected."

\* extractLearnings(context)
ExtractLearnings(feedback) ==
  "Learned: Message optimization strategy successful. Feedback: " \o feedback

\* the value sendMessage returns, were phase 5 to count as well
FinalResultBoth(call) == AllPass(call.tests) /\ call.validation

\* the value sendMessage returns after step 9: context.validation || false
FinalResult(call) == call.validation

\* sendMessage without its try/catch: a fault reaches the caller
Propagate(outcome) == outcome

\* the try/catch of sendMessage: a fault becomes the return value false
Catch(outcome) == IF outcome.throws THEN Returned(FALSE) ELSE outcome

\* the record of a sendMessage call that has returned
SendReturn(m, outcome, tests, corrected) ==
  [op |-> "sendMessage", msg |-> m, ret |-> Catch(outcome),
   tests |-> tests, corrected |-> corrected]

InitLayer ==
  /\ agents = [i \in AgentIds |-> NoAgent]
  /\ memoryContext = [o \in AgentObjs |-> EmptyMap]
  /\ lastActive = [o \in AgentObjs |-> 0]
  /\ calls = [s \in Slots |-> IdleCall]
  /\ ever = {}

\* the slot a new call takes; a sequential caller awaits every call first
CanStart(s, seq) ==
  /\ calls[s].pc = "idle"
  /\ \A x \in Slots : x < s => calls[x].pc # "idle"
  /\ seq => \A x \in Slots : calls[x].pc = "idle"

\* a return that leaves the call in flight
FinishNever(s) == calls

\* the return of the async call in slot s
Finish(s) == [calls EXCEPT ![s] = IdleCall]

(***************************************************************************)
(* The cache on its own: a CacheManager of capacity CacheCap driven by     *)
(* set, get, has, delete, clear, optimize, backupCritical and              *)
(* restoreCritical calls while the clock advances.                         *)
(***************************************************************************)
KeyNames == <<"k1", "k2", "k3", "k4", "k5", "k6">>
\* a value is any JavaScript value; one object is enough for the cache
CacheValues == {[data |-> "v"]}
CachePriorities == {LOW, CRITICAL}
CacheTtls == {0}

\* keys are opaque to the cache, so a run introduces them in the order of
\* KeyNames: the keys a call may name are those used so far and the next one
CallKeys == {KeyNames[i] : i \in 1..(IF hist.used < CacheCap + 1 THEN hist.used + 1 ELSE hist.used)}

UsedAfter(h, k) == IF k \in {KeyNames[i] : i \in 1..h.used} THEN h.used ELSE h.used + 1

StatTotal(c) == c.sets + c.hits + c.misses

\* the history of a run made of sets of pairwise distinct keys only
HistAfterSet(h, k) ==
  IF h.fresh /\ k \notin {h.keys[i] : i \in 1..Len(h.keys)}
    THEN [fresh |-> TRUE, keys |-> Append(h.keys, k), used |-> UsedAfter(h, k)]
    ELSE [fresh |-> FALSE, keys |-> <<>>, used |-> UsedAfter(h, k)]

\* the history after any other call
HistSpoiled(h) == [fresh |-> FALSE, keys |-> <<>>, used |-> h.used]

InitCache ==
  /\ now = 0
  /\ cache = NewCache(CacheCap, DefaultMaxAge)
  /\ backup = <<>>
  /\ hist = [fresh |-> TRUE, keys |-> <<>>, used |-> 0]
  /\ last = [op |-> "new"]
  /\ InitLayer

CSet(k, v, ttl, p) ==
  /\ StatTotal(cache) < MaxCacheCalls
  /\ cache' = CacheSet(cache, k, v, ttl, p, now)
  /\ hist' = HistAfterSet(hist, k)
  /\ last' = [op |-> "set", key |-> k]
  /\ UNCHANGED <<now, backup>>
  /\ UNCHANGED <<agents, memoryContext, lastActive, calls, ever>>

CGet(k) ==
  /\ StatTotal(cache) < MaxCacheCalls
  /\ cache' = CacheGet(cache, k, now).c
  /\ hist' = HistSpoiled(hist)
  /\ last' = [op |-> "get", key |-> k, ret |-> CacheGet(cache, k, now).ret]
  /\ UNCHANGED <<now, backup>>
  /\ UNCHANGED <<agents, memoryContext, lastActive, calls, ever>>

CHas(k) ==
  /\ last' = [op |-> "has", key |-> k, ret |-> CacheHas(cache, k, now)]
  /\ hist' = HistSpoiled(hist)
  /\ UNCHANGED <<now, cache, backup>>
  /\ UNCHANGED <<agents, memoryContext, lastActive, calls, ever>>

CDelete(k) ==
  /\ cache' = CacheDelete(cache, k).c
  /\ hist' = HistSpoiled(hist)
  /\ last' = [op |-> "delete", key |-> k, ret |-> CacheDelete(cache, k).ret]
  /\ UNCHANGED <<now, backup>>
  /\ UNCHANGED <<agents, memoryContext, lastActive, calls, ever>>

CClear ==
  /\ cache' = CacheClear(cache)
  /\ hist' = HistSpoiled(hist)
  /\ last' = [op |-> "clear"]
  /\ UNCHANGED <<now, backup>>
  /\ UNCHANGED <<agents, memoryContext, lastActive, calls, ever>>

COptimize ==
  /\ cache' = CacheOptimize(cache, now)
  /\ hist' = HistSpoiled(hist)
  /\ last' = [op |-> "optimize"]
  /\ UNCHANGED <<now, backup>>
  /\ UNCHANGED <<agents, memoryContext, lastActive, calls, ever>>

CBackup ==
  /\ backup' = BackupCritical(cache, now)
  /\ hist' = HistSpoiled(hist)
  /\ last' = [op |-> "backupCritical"]
  /\ UNCHANGED <<now, cache>>
  /\ UNCHANGED <<agents, memoryContext, lastActive, calls, ever>>

CRestore ==
  /\ StatTotal(cache) + Len(backup) <= MaxCacheCalls
  /\ cache' = RestoreCritical(cache, backup, now)
  /\ hist' = HistSpoiled(hist)
  /\ last' = [op |-> "restoreCritical"]
  /\ UNCHANGED <<now, backup>>
  /\ UNCHANGED <<agents, memoryContext, lastActive, calls, ever>>

\* time passes, one tick at a time, while no call is in flight
Tick ==
  /\ now < MaxNow
  /\ \A s \in Slots : calls[s].pc = "idle"
  /\ now' = now + TickMs
  /\ UNCHANGED <<cache, backup, hist>>
  /\ UNCHANGED <<agents, memoryContext, lastActive, calls, last, ever>>

\* time passes while no call is in flight: the route TTL and a millisecond
LongTick ==
  /\ now < MaxLongTicks * (RouteTtl + 1)
  /\ \A s \in Slots : calls[s].pc = "idle"
  /\ now' = now + RouteTtl + 1
  /\ UNCHANGED <<cache, backup, hist>>
  /\ UNCHANGED <<agents, memoryContext, lastActive, calls, last, ever>>

NextCache ==
  \/ \E k \in CallKeys, v \in CacheValues, ttl \in CacheTtls, p \in CachePriorities :
       CSet(k, v, ttl, p)
  \/ \E k \in CallKeys : CGet(k)
  \/ \E k \in CallKeys : CHas(k)
  \/ \E k \in CallKeys : CDelete(k)
  \/ CClear
  \/ COptimize
  \/ CBackup
  \/ CRestore
  \/ Tick

SpecCache == InitCache /\ [][NextCache]_vars

(***************************************************************************)
(* The layer: registerAgent, sendMessage, recallMessage and clearMemory    *)
(* calls on one AIProcessingLayer.  An async call runs up to its next      *)
(* await in one step; what it awaits is already settled, so a call's steps *)
(* are consecutive microtasks and other calls can only start in between.   *)
(* seq = TRUE is the caller that awaits every call before the next one.    *)
(***************************************************************************)
MsgIds == {"m1"}
Payloads ==
  { [content |-> JsNumber(5), encoding |-> EncJSON],
    [content |-> JsNumber(5), encoding |-> EncA114],
    [content |-> JsInt(32768, 0), encoding |-> EncA114] }   \* 2^31
MsgPriorities == {NORMAL}

Message(i, sd, rc, pl, p, t) ==
  [id |-> i, timestamp |-> t, senderId |-> sd, receiverId |-> rc,
   content |-> pl.content, messageType |-> INSTRUCTION, priority |-> p,
   compressed |-> FALSE, encoding |-> pl.encoding]

SenderIds == {"A"}
ReceiverIds == {"A", "B"}

Messages(t) ==
  {Message(i, sd, rc, pl, p, t) :
     i \in MsgIds, sd \in SenderIds, rc \in ReceiverIds, pl \in Payloads, p \in MsgPriorities}

InitLayerSpec ==
  /\ now = 0
  /\ cache = NewCache(DefaultMaxSize, DefaultMaxAge)
  /\ backup = <<>>
  /\ hist = [fresh |-> TRUE, keys |-> <<>>, used |-> 0]
  /\ last = [op |-> "new"]
  /\ InitLayer

registerAgent(o, seq) ==
  /\ seq => \A x \in Slots : calls[x].pc = "idle"
  /\ agents' = RegisterAgent(agents, o)
  /\ ever' = ever \cup {IdOf[o]}
  /\ last' = [op |-> "registerAgent", agent |-> o]
  /\ UNCHANGED <<now, cache, backup, hist, memoryContext, lastActive, calls>>

\* sendMessage up to its first await: the registration check and step 2
SendBegin(s, m, seq) ==
  /\ CanStart(s, seq)
  /\ IF ~BothRegistered(agents, m)
       THEN /\ last' = SendReturn(m, Thrown("Agent not registered"), <<>>, FALSE)
            /\ UNCHANGED calls
       ELSE LET opt == OptimizeMessage(m) IN
            IF opt.throws
              THEN /\ last' = SendReturn(m, opt, <<>>, FALSE)
                   /\ UNCHANGED calls
              ELSE /\ calls' = [calls EXCEPT ![s] =
                          [pc |-> "route", msg |-> m, compact |-> opt.value,
                           receiver |-> NoAgent, tests |-> <<>>,
                           corrected |-> FALSE, validation |-> FALSE]]
                   /\ UNCHANGED last
  /\ UNCHANGED <<now, cache, backup, hist, agents, memoryContext, lastActive, ever>>

\* a sendMessage call, while the run has made fewer than MaxLayerCalls cache calls
SendStart(s, m, seq) ==
  /\ StatTotal(cache) < MaxLayerCalls
  /\ SendBegin(s, m, seq)

\* routeMessage up to its await: the receiver lookup and cache.set
RouteStep(s, nextPc) ==
  LET call == calls[s]
      receiver == agents[call.compact.r]
  IN IF receiver = NoAgent
       THEN /\ last' = SendReturn(call.msg, Thrown("Receiver not found"),
                                  call.tests, call.corrected)
            /\ calls' = Finish(s)
            /\ UNCHANGED cache
       ELSE /\ cache' = RouteCache(cache, call.compact, now)
            /\ calls' = [calls EXCEPT ![s].pc = nextPc, ![s].receiver = receiver]
            /\ UNCHANGED last

\* step 3 of sendMessage, up to the await inside routeMessage
SendRoute(s) ==
  /\ calls[s].pc = "route"
  /\ RouteStep(s, "deliver")
  /\ UNCHANGED <<now, backup, hist, agents, memoryContext, lastActive, ever>>

\* routeMessage after its await: the receiver's memory and lastActive
SendDeliver(s) ==
  /\ calls[s].pc \in {"deliver", "redeliver"}
  /\ LET call == calls[s] IN
       /\ memoryContext' = [memoryContext EXCEPT ![call.receiver] =
                              RouteMemory(@, call.compact)]
       /\ lastActive' = [lastActive EXCEPT ![call.receiver] = now]
       /\ calls' = [calls EXCEPT ![s].pc =
                      IF call.pc = "deliver" THEN "test" ELSE "validate"]
  /\ UNCHANGED <<now, cache, backup, hist, agents, last, ever>>

\* step 5: testMessageDelivery reads the receiver's memory and the cache
SendTest(s) ==
  /\ calls[s].pc = "test"
  /\ calls' = [calls EXCEPT ![s].pc = "feedback",
                 ![s].tests = TestMessageDelivery(agents, memoryContext, cache, now,
                                                  calls[s].compact)]
  /\ UNCHANGED <<now, cache, backup, hist, agents, memoryContext, lastActive, last, ever>>

\* steps 6 to 8 when every test passed: validateDelivery reads memory and cache
SendFeedbackPass(s) ==
  /\ calls[s].pc = "feedback"
  /\ AllPass(calls[s].tests)
  /\ calls' = [calls EXCEPT ![s].pc = "learn",
                 ![s].validation = AllPass(TestMessageDelivery(agents, memoryContext,
                                             cache, now, calls[s].compact))]
  /\ UNCHANGED <<now, cache, backup, hist, agents, memoryContext, lastActive, last, ever>>

\* steps 6 and 7 when a test failed: correctMessageDelivery routes once more
SendCorrect(s) ==
  /\ calls[s].pc = "feedback"
  /\ ~AllPass(calls[s].tests)
  /\ \E c2 \in {[calls EXCEPT ![s].corrected = TRUE]} :
       LET call == c2[s]
           receiver == agents[call.compact.r]
       IN IF receiver = NoAgent
            THEN /\ last' = SendReturn(call.msg, Thrown("Receiver not found"),
                                       call.tests, call.corrected)
                 /\ calls' = Finish(s)
                 /\ UNCHANGED cache
            ELSE /\ cache' = RouteCache(cache, call.compact, now)
                 /\ calls' = [c2 EXCEPT ![s].pc = "redeliver", ![s].receiver = receiver]
                 /\ UNCHANGED last
  /\ UNCHANGED <<now, backup, hist, agents, memoryContext, lastActive, ever>>

\* step 8 after a correction: validateDelivery reads memory and cache
SendValidate(s) ==
  /\ calls[s].pc = "validate"
  /\ calls' = [calls EXCEPT ![s].pc = "learn",
                 ![s].validation = AllPass(TestMessageDelivery(agents, memoryContext,
                                             cache, now, calls[s].compact))]
  /\ UNCHANGED <<now, cache, backup, hist, agents, memoryContext, lastActive, last, ever>>

\* step 9 and the return: the learning goes to the sender's memory
SendLearn(s) ==
  /\ calls[s].pc = "learn"
  /\ LET call == calls[s]
         sender == agents[call.msg.senderId]
         learning == ExtractLearnings(GenerateFeedback(call.tests))
     IN /\ memoryContext' =
             IF sender = NoAgent THEN memoryContext
             ELSE [memoryContext EXCEPT ![sender] = MapSet(@, LearningKey(now), learning)]
        /\ last' = SendReturn(call.msg, Returned(FinalResult(call)),
                              call.tests, call.corrected)
  /\ calls' = Finish(s)
  /\ UNCHANGED <<now, cache, backup, hist, agents, lastActive, ever>>

\* the key recallMessage looks up: `msg_${messageId}`
RecallKey(messageId) == "msg_" \o messageId

\* the memoryContext lookup of recallMessage
RecallFromMemory(ag, mem, messageId, agentId) ==
  LET agent == ag[agentId] IN
  IF agent # NoAgent /\ RecallKey(messageId) \in DOMAIN mem[agent]
    THEN mem[agent][RecallKey(messageId)]
    ELSE Null

\* recallMessage looking into the agent's memory before the cache
RecallResultMemoryFirst(cached, ag, mem, messageId, agentId) ==
  IF RecallFromMemory(ag, mem, messageId, agentId) # Null
    THEN RecallFromMemory(ag, mem, messageId, agentId)
    ELSE cached

\* recallMessage without the look into the agent's memory
RecallResultCacheOnly(cached, ag, mem, messageId, agentId) == cached

\* what recallMessage returns once cache.get has answered cached
RecallResult(cached, ag, mem, messageId, agentId) ==
  IF cached # Null THEN cached ELSE RecallFromMemory(ag, mem, messageId, agentId)

\* recallMessage up to its await: cache.get
RecallBegin(s, messageId, agentId, seq) ==
  /\ CanStart(s, seq)
  /\ LET got == CacheGet(cache, RecallKey(messageId), now) IN
       /\ cache' = got.c
       /\ calls' = [calls EXCEPT ![s] =
                      [pc |-> "recall", messageId |-> messageId, agentId |-> agentId,
                       cached |-> got.ret]]
  /\ UNCHANGED <<now, backup, hist, agents, memoryContext, lastActive, last, ever>>

\* a recallMessage call, while the run has made fewer than MaxLayerCalls cache calls
RecallStart(s, messageId, agentId, seq) ==
  /\ StatTotal(cache) < MaxLayerCalls
  /\ RecallBegin(s, messageId, agentId, seq)

\* recallMessage after its await: the cached value, or the agent's memory
RecallFinish(s) ==
  /\ calls[s].pc = "recall"
  /\ last' = [op |-> "recallMessage", messageId |-> calls[s].messageId,
              agentId |-> calls[s].agentId,
              got |-> Returned(RecallResult(calls[s].cached, agents, memoryContext,
                                            calls[s].messageId, calls[s].agentId))]
  /\ calls' = Finish(s)
  /\ UNCHANGED <<now, cache, backup, hist, agents, memoryContext, lastActive, ever>>

\* if (agentId): an omitted argument and the empty string are both falsy
Truthy(arg) == arg # Undefined /\ arg # ""

\* clearMemory's else branch without the cache.clear()
ClearCacheNot(c) == c

\* clearMemory's else branch: await this.cache.clear()
ClearCache(c) == CacheClear(c)

clearMemory(arg, seq) ==
  /\ seq => \A x \in Slots : calls[x].pc = "idle"
  /\ IF Truthy(arg)
       THEN /\ memoryContext' =
                 IF agents[arg] # NoAgent
                   THEN [memoryContext EXCEPT ![agents[arg]] = EmptyMap]
                   ELSE memoryContext
            /\ UNCHANGED cache
       ELSE /\ memoryContext' =
                 [o \in AgentObjs |->
                    IF \E i \in AgentIds : agents[i] = o THEN EmptyMap ELSE memoryContext[o]]
            /\ cache' = ClearCache(cache)
  /\ last' = [op |-> "clearMemory", arg |-> arg]
  /\ UNCHANGED <<now, backup, hist, agents, lastActive, calls, ever>>

\* the specifications below keep one async call in flight at a time
OneSlot == {1}

Next ==
  \/ \E o \in AgentObjs : registerAgent(o, TRUE)
  \/ \E s \in OneSlot, m \in Messages(now) : SendStart(s, m, TRUE)
  \/ \E s \in OneSlot : SendRoute(s)
  \/ \E s \in OneSlot : SendDeliver(s)
  \/ \E s \in OneSlot : SendTest(s)
  \/ \E s \in OneSlot : SendFeedbackPass(s)
  \/ \E s \in OneSlot : SendLearn(s)
  \/ \E s \in OneSlot, i \in MsgIds, a \in AgentIds : RecallStart(s, i, a, TRUE)
  \/ \E s \in OneSlot : RecallFinish(s)
  \/ \E arg \in AgentIds \cup {Undefined} : clearMemory(arg, TRUE)
  \/ LongTick

Spec == InitLayerSpec /\ [][Next]_vars

(***************************************************************************)
(* Overlapping calls: a caller that does not await starts further calls    *)
(* while sendMessage and recallMessage calls are in flight.  Sequential    *)
(* runs never fail a self-test, so the correction steps belong here only.  *)
(***************************************************************************)
ConcPayloads == {[content |-> JsNumber(5), encoding |-> EncJSON]}

ConcMessages(t) ==
  {Message(i, sd, rc, pl, p, t) :
     i \in MsgIds, sd \in SenderIds, rc \in {"B"}, pl \in ConcPayloads, p \in MsgPriorities}

NextConc ==
  \/ \E o \in AgentObjs : registerAgent(o, FALSE)
  \/ \E s \in OneSlot, m \in ConcMessages(now) : SendStart(s, m, FALSE)
  \/ \E s \in OneSlot : SendRoute(s)
  \/ \E s \in OneSlot : SendDeliver(s)
  \/ \E s \in OneSlot : SendTest(s)
  \/ \E s \in OneSlot : SendFeedbackPass(s)
  \/ \E s \in OneSlot : SendCorrect(s)
  \/ \E s \in OneSlot : SendValidate(s)
  \/ \E s \in OneSlot : SendLearn(s)
  \/ \E s \in OneSlot, i \in MsgIds, a \in {"B"} : RecallStart(s, i, a, FALSE)
  \/ \E s \in OneSlot : RecallFinish(s)
  \/ \E arg \in {"B", Undefined} : clearMemory(arg, FALSE)
  \/ LongTick

SpecConc == InitLayerSpec /\ [][NextConc]_vars

(***************************************************************************)
(* One sendMessage and one clearMemory() that overlap: the caller awaits    *)
(* neither before it starts the other.  clearMemory() is an async call of   *)
(* its own: it clears the memories and the cache up to its await and        *)
(* returns after it.                                                        *)
(***************************************************************************)
SendSlot == 1
ClearSlot == 2

AtomicPayloads ==
  { [content |-> JsNumber(5), encoding |-> EncJSON],
    [content |-> JsNumber(5), encoding |-> EncA114] }

AtomicMessages(t) ==
  {Message(i, sd, rc, pl, p, t) :
     i \in MsgIds, sd \in SenderIds, rc \in {"B"}, pl \in AtomicPayloads,
     p \in {NORMAL, HIGH}}

\* the one sendMessage of the run
SendOnce(m) ==
  /\ last.op \in {"new", "registerAgent"}
  /\ SendStart(SendSlot, m, FALSE)

\* clearMemory() up to its await: every registered peer's memory, then
\* cache.clear()
ClearStart(s) ==
  /\ calls[s].pc = "idle"
  /\ last.op # "clearMemory"
  /\ memoryContext' =
       [o \in AgentObjs |->
          IF \E i \in AgentIds : agents[i] = o THEN EmptyMap ELSE memoryContext[o]]
  /\ cache' = ClearCache(cache)
  /\ calls' = [calls EXCEPT ![s] = [pc |-> "cleared"]]
  /\ UNCHANGED <<now, backup, hist, agents, lastActive, last, ever>>

\* clearMemory() after its await: it returns
ClearFinish(s) ==
  /\ calls[s].pc = "cleared"
  /\ last' = [op |-> "clearMemory", arg |-> Undefined]
  /\ calls' = Finish(s)
  /\ UNCHANGED <<now, cache, backup, hist, agents, memoryContext, lastActive, ever>>

NextAtomic ==
  \/ \E o \in {"a1", "b1"} : registerAgent(o, TRUE)
  \/ \E m \in AtomicMessages(now) : SendOnce(m)
  \/ SendRoute(SendSlot)
  \/ SendDeliver(SendSlot)
  \/ SendTest(SendSlot)
  \/ SendFeedbackPass(SendSlot)
  \/ SendCorrect(SendSlot)
  \/ SendValidate(SendSlot)
  \/ SendLearn(SendSlot)
  \/ ClearStart(ClearSlot)
  \/ ClearFinish(ClearSlot)

SpecAtomic == InitLayerSpec /\ [][NextAtomic]_vars

(***************************************************************************)
(* Two sendMessage calls for the same message id in flight together, while *)
(* peers are registered anew: a receiver registered again under its id has *)
(* an empty memory, which fails the self-test of a send already routed and *)
(* makes it route once more.                                               *)
(***************************************************************************)
RaceMessages(t) ==
  {Message(i, sd, rc, pl, p, t) :
     i \in MsgIds, sd \in SenderIds, rc \in {"B"}, pl \in ConcPayloads,
     p \in {NORMAL, HIGH}}

NextRace ==
  \/ \E o \in {"a1", "b1", "b2"} : registerAgent(o, FALSE)
  \/ \E s \in Slots, m \in RaceMessages(now) : SendStart(s, m, FALSE)
  \/ \E s \in Slots : SendRoute(s)
  \/ \E s \in Slots : SendDeliver(s)
  \/ \E s \in Slots : SendTest(s)
  \/ \E s \in Slots : SendFeedbackPass(s)
  \/ \E s \in Slots : SendCorrect(s)
  \/ \E s \in Slots : SendValidate(s)
  \/ \E s \in Slots : SendLearn(s)

SpecRace == InitLayerSpec /\ [][NextRace]_vars

(***************************************************************************)
(* Scheduling.  Every await of sendMessage is on a promise that is already *)
(* settled, so the continuation of a call in flight sits in the microtask  *)
(* queue and the event loop runs it: a step of a call in flight that stays *)
(* enabled is eventually taken.  Callers may start registerAgent,          *)
(* sendMessage and clearMemory calls at any time or never.                 *)
(***************************************************************************)
\* the next step of the sendMessage call in slot s
SendStep(s) ==
  \/ SendRoute(s)
  \/ SendDeliver(s)
  \/ SendTest(s)
  \/ SendFeedbackPass(s)
  \/ SendCorrect(s)
  \/ SendValidate(s)
  \/ SendLearn(s)

NextLive ==
  \/ \E o \in {"a1", "b1"} : registerAgent(o, FALSE)
  \/ \E s \in Slots, m \in ConcMessages(now) : SendStart(s, m, FALSE)
  \/ \E s \in Slots : SendStep(s)
  \/ clearMemory(Undefined, FALSE)

SpecLive ==
  /\ InitLayerSpec
  /\ [][NextLive]_vars
  /\ \A s \in Slots : WF_vars(SendStep(s))

(***************************************************************************)
(* Recall after the cache has lost a message: sequential sends of two ids  *)
(* of priority LOW to B through a cache of capacity RecallCap (standing    *)
(* for the 1000 of the CacheManager constructor), with the clock moving by *)
(* half the route TTL and a millisecond, and with optimize() called on the *)
(* cache between the calls.                                                *)
(***************************************************************************)
RecallCap == 1
MaxRecallCalls == 3

RecallIds == {"m1", "m2"}

RecallMessages(t) ==
  {Message(i, "A", "B", [content |-> JsNumber(5), encoding |-> EncJSON], LOW, t) :
     i \in RecallIds}

InitRecall ==
  /\ now = 0
  /\ cache = NewCache(RecallCap, DefaultMaxAge)
  /\ backup = <<>>
  /\ hist = [fresh |-> TRUE, keys |-> <<>>, used |-> 0]
  /\ last = [op |-> "new"]
  /\ InitLayer

\* time passes while no call is in flight: half the route TTL and a
\* millisecond, until the route TTL has passed
HalfTick ==
  /\ now <= RouteTtl
  /\ \A s \in Slots : calls[s].pc = "idle"
  /\ now' = now + RouteTtl \div 2 + 1
  /\ UNCHANGED <<cache, backup, hist>>
  /\ UNCHANGED <<agents, memoryContext, lastActive, calls, last, ever>>

\* cache.optimize() while no call is in flight
OptimizeIdle ==
  /\ \A s \in Slots : calls[s].pc = "idle"
  /\ COptimize

NextRecall ==
  \/ \E o \in {"a1", "b1", "b2"} : registerAgent(o, TRUE)
  \/ \E s \in OneSlot, m \in RecallMessages(now) :
       StatTotal(cache) < MaxRecallCalls /\ SendBegin(s, m, TRUE)
  \/ \E s \in OneSlot : SendRoute(s)
  \/ \E s \in OneSlot : SendDeliver(s)
  \/ \E s \in OneSlot : SendTest(s)
  \/ \E s \in OneSlot : SendFeedbackPass(s)
  \/ \E s \in OneSlot : SendLearn(s)
  \/ \E s \in OneSlot, i \in RecallIds :
       StatTotal(cache) < MaxRecallCalls /\ RecallBegin(s, i, "B", TRUE)
  \/ \E s \in OneSlot : RecallFinish(s)
  \/ clearMemory("B", TRUE)
  \/ HalfTick
  \/ OptimizeIdle

SpecRecall == InitRecall /\ [][NextRecall]_vars

(***************************************************************************)
(* The route step under every priority: one sendMessage call at a time,    *)
(* to either peer, with registerAgent and clearMemory calls in between its *)
(* awaits, so that the correction routes a second time.                    *)
(***************************************************************************)
\* a LOW message in the JSON encoding and a CRITICAL one in the A114 encoding
RouteMessages(t) ==
  {Message(i, sd, rc, [content |-> JsNumber(5), encoding |-> pe[2]], pe[1], t) :
     i \in MsgIds, sd \in SenderIds, rc \in ReceiverIds,
     pe \in {<<LOW, EncJSON>>, <<CRITICAL, EncA114>>}}

NextRoute ==
  \/ \E o \in {"a1", "b1", "b2"} : registerAgent(o, FALSE)
  \/ \E s \in OneSlot, m \in RouteMessages(now) : SendStart(s, m, FALSE)
  \/ \E s \in OneSlot : SendStep(s)
  \/ \E arg \in {"B", Undefined} : clearMemory(arg, FALSE)
  \/ LongTick

SpecRoute == InitLayerSpec /\ [][NextRoute]_vars

(***************************************************************************)
(* Sequential sends of messages that share an id and differ in receiver,   *)
(* content and priority.                                                   *)
(***************************************************************************)
ResendPayloads ==
  { [content |-> JsNumber(5), encoding |-> EncJSON],
    [content |-> JsNumber(6), encoding |-> EncJSON] }
ResendPriorities == {NORMAL, HIGH}

ResendMessages(t) ==
  {Message(i, sd, rc, pl, p, t) :
     i \in MsgIds, sd \in SenderIds, rc \in ReceiverIds, pl \in ResendPayloads,
     p \in ResendPriorities}

NextResend ==
  \/ \E o \in AgentObjs : registerAgent(o, TRUE)
  \/ \E s \in OneSlot, m \in ResendMessages(now) : SendStart(s, m, TRUE)
  \/ \E s \in OneSlot : SendRoute(s)
  \/ \E s \in OneSlot : SendDeliver(s)
  \/ \E s \in OneSlot : SendTest(s)
  \/ \E s \in OneSlot : SendFeedbackPass(s)
  \/ \E s \in OneSlot : SendLearn(s)
  \/ LongTick

SpecResend == InitLayerSpec /\ [][NextResend]_vars

(***************************************************************************)
(* Sequential sends and recalls of messages whose content is a string, an  *)
(* array or an object; the id of a message names its content and encoding. *)
(***************************************************************************)
\* the contents sent
Contents ==
  << JsString(<<104, 101, 108, 108, 111, 32, 119, 111, 114, 108, 100>>),  \* "hello world"
     JsString(<<72, 101, 108, 108, 111>>),  \* "Hello"
     JsString(<<114, 101, 115, 112, 111, 110, 115, 101>>),  \* "response"
     JsString(<<114, 101, 115, 117, 108, 116>>),  \* "result"
     JsString(<<105, 100>>),  \* "id"
     JsArray(<<JsString(<<97>>), JsString(<<98>>)>>),  \* ["a", "b"]
     JsArray(<<>>),  \* []
     JsObject(<<[key |-> <<97>>, value |-> JsString(<<98>>)]>>),  \* { a: "b" }
     JsObject(<<[key |-> <<117, 115, 101, 114, 73, 100>>, value |-> JsString(<<98>>)]>>),  \* { userId: "b" }
     JsObject(<<[key |-> <<117, 115, 101, 114, 95, 105, 100>>, value |-> JsString(<<98>>)]>>),  \* { user_id: "b" }
     JsObject(<<[key |-> <<114, 101, 115, 117, 108, 116>>, value |-> JsString(<<72, 101, 108, 108, 111>>)]>>),  \* { result: "Hello" }
     JsObject(<<[key |-> <<97>>, value |-> JsArray(<<JsString(<<97>>)>>)]>>) >>  \* { a: ["a"] }

ContentEncodings == <<EncJSON, EncA114>>

\* the ids "c1", "c2", ...: one per content and encoding
ContentId(k, e) == "c" \o ToString(2 * (k - 1) + e)

ContentMessages(t) ==
  {Message(ContentId(k, e), "A", "B",
           [content |-> Contents[k], encoding |-> ContentEncodings[e]], NORMAL, t) :
     k \in 1..Len(Contents), e \in 1..Len(ContentEncodings)}

ContentIds == {ContentId(k, e) : k \in 1..Len(Contents), e \in 1..Len(ContentEncodings)}

NextContent ==
  \/ \E o \in {"a1", "b1"} : registerAgent(o, TRUE)
  \/ \E s \in OneSlot, m \in ContentMessages(now) : SendStart(s, m, TRUE)
  \/ \E s \in OneSlot : SendRoute(s)
  \/ \E s \in OneSlot : SendDeliver(s)
  \/ \E s \in OneSlot : SendTest(s)
  \/ \E s \in OneSlot : SendFeedbackPass(s)
  \/ \E s \in OneSlot : SendLearn(s)
  \/ \E s \in OneSlot, i \in ContentIds : RecallStart(s, i, "B", TRUE)
  \/ \E s \in OneSlot : RecallFinish(s)

SpecContent == InitLayerSpec /\ [][NextContent]_vars

(***************************************************************************)
(* The cache under set and get calls only, for runs long enough to fill    *)
(* it, read entries and overflow it: CacheCap + 3 calls.                   *)
(***************************************************************************)
LruPriorities == {NORMAL}

LongSet(k, v, p) ==
  /\ StatTotal(cache) < CacheCap + 3
  /\ cache' = CacheSet(cache, k, v, 0, p, now)
  /\ hist' = HistAfterSet(hist, k)
  /\ last' = [op |-> "set", key |-> k]
  /\ UNCHANGED <<now, backup>>
  /\ UNCHANGED <<agents, memoryContext, lastActive, calls, ever>>

LongGet(k) ==
  /\ StatTotal(cache) < CacheCap + 3
  /\ cache' = CacheGet(cache, k, now).c
  /\ hist' = HistSpoiled(hist)
  /\ last' = [op |-> "get", key |-> k, ret |-> CacheGet(cache, k, now).ret]
  /\ UNCHANGED <<now, backup>>
  /\ UNCHANGED <<agents, memoryContext, lastActive, calls, ever>>

\* getStats(): the stats as of the call
CGetStats ==
  /\ last' = [op |-> "getStats", ret |-> GetStats(cache)]
  /\ hist' = HistSpoiled(hist)
  /\ UNCHANGED <<now, cache, backup>>
  /\ UNCHANGED <<agents, memoryContext, lastActive, calls, ever>>

NextLru ==
  \/ \E k \in CallKeys, v \in CacheValues, p \in LruPriorities : LongSet(k, v, p)
  \/ \E k \in CallKeys : LongGet(k)
  \/ Tick

SpecLru == InitCache /\ [][NextLru]_vars

(***************************************************************************)
(* The cache built with a maxAge of its own, as in the README:             *)
(* new CacheManager(N, 600000).                                            *)
(***************************************************************************)
ReadmeMaxAge == 600000

InitCacheAged ==
  /\ now = 0
  /\ cache = NewCache(CacheCap, ReadmeMaxAge)
  /\ backup = <<>>
  /\ hist = [fresh |-> TRUE, keys |-> <<>>, used |-> 0]
  /\ last = [op |-> "new"]
  /\ InitLayer

SpecCacheAged == InitCacheAged /\ [][NextCache]_vars

(***************************************************************************)
(* The cache under the calls that the stats report on, and getStats.       *)
(***************************************************************************)
NextStats ==
  \/ \E k \in CallKeys, v \in CacheValues, p \in LruPriorities : LongSet(k, v, p)
  \/ \E k \in CallKeys : LongGet(k)
  \/ \E k \in CallKeys : CHas(k)
  \/ \E k \in CallKeys : CDelete(k)
  \/ CClear
  \/ CGetStats
  \/ Tick

SpecStats == InitCache /\ [][NextStats]_vars

(***************************************************************************)
(* The codec on its own: encode(v) for a value of a bounded set, then       *)
(* decode of the packet encode returned.                                    *)
(***************************************************************************)
\* integers on both sides of the ends of the INT8, INT16 and INT32 ranges
CodecIntegers ==
  { JsInt(0, 0), JsInt(0, 1), JsInt(-1, 65535),
    JsInt(0, 127), JsInt(0, 128), JsInt(-1, 65536 - 128), JsInt(-1, 65536 - 129),
    JsInt(0, 32767), JsInt(0, 32768), JsInt(-1, 32768), JsInt(-1, 32767),
    JsInt(1, 0), JsInt(32767, 65535), JsInt(32768, 0),
    JsInt(-32768, 0), JsInt(-32769, 65535) }

\* "", "a", "ab" and "e-acute" (two bytes of UTF-8)
CodecStrings == { JsString(<<>>), JsString(<<97>>), JsString(<<97, 98>>),
                  JsString(<<195, 169>>) }

\* numbers that are not integers: 0.5 and -1.5, by their IEEE 754 doubles
CodecFloats == { JsFloat(<<63, 224, 0, 0, 0, 0, 0, 0>>),
                 JsFloat(<<191, 248, 0, 0, 0, 0, 0, 0>>) }

CodecScalars == {JsNull, JsBool(TRUE), JsBool(FALSE)} \cup CodecIntegers \cup CodecStrings

\* the keys "a" and "b"
CodecKeys == {<<97>>, <<98>>}

\* arrays and objects of scalars: empty, of one item, of two
CodecFlat ==
  {JsArray(<<>>), JsObject(<<>>)}
    \cup {JsArray(<<x>>) : x \in CodecScalars}
    \cup {JsArray(<<JsInt(0, 128), x>>) : x \in CodecScalars}
    \cup {JsObject(<<[key |-> k, value |-> x]>>) : k \in CodecKeys, x \in CodecScalars}
    \cup {JsObject(<<[key |-> k1, value |-> JsBool(TRUE)], [key |-> k2, value |-> x]>>) :
             <<k1, k2>> \in {<<<<97>>, <<98>>>>, <<<<98>>, <<97>>>>}, x \in CodecIntegers}

\* nested: an array or an object holding arrays and objects
CodecNested ==
  {JsArray(<<x>>) : x \in {JsArray(<<>>), JsObject(<<>>), JsArray(<<JsArray(<<>>)>>)}}
    \cup {JsArray(<<JsObject(<<[key |-> <<98>>, value |-> JsArray(<<x>>)]>>), JsNull>>) :
             x \in CodecIntegers}
    \cup {JsObject(<<[key |-> <<98>>, value |-> JsObject(<<[key |-> <<98>>, value |-> x]>>)],
                      [key |-> <<97>>, value |-> JsArray(<<x, JsString(<<>>)>>)]>>) :
             x \in CodecIntegers}

CodecValues == CodecScalars \cup CodecFloats \cup CodecFlat \cup CodecNested

\* await protocol.encode(data)
CodecEncode(data) ==
  /\ last.op \in {"new", "decode", "receive"}
  /\ last' = [op |-> "encode", data |-> data, ret |-> Encode(data)]
  /\ UNCHANGED <<now, cache, backup, hist>>
  /\ UNCHANGED <<agents, memoryContext, lastActive, calls, ever>>

\* await protocol.decode(buffer), for the buffer the encode before returned
CodecDecode ==
  /\ last.op = "encode"
  /\ ~last.ret.throws
  /\ last' = [op |-> "decode", data |-> last.data, buffer |-> last.ret.bytes,
              ret |-> Decode(last.ret.bytes)]
  /\ UNCHANGED <<now, cache, backup, hist>>
  /\ UNCHANGED <<agents, memoryContext, lastActive, calls, ever>>

\* buffers that did not come from encode: every mix of right and wrong magic
\* bytes, version and declared length before a payload of 0, 1 or 2 bytes,
\* whole or cut short; the payload <<NULL, NULL>> is a whole value followed
\* by a further byte
ReceivedPackets ==
  { <<m1, m2, ver, 0, 0, 0, 0, len>> \o payload :
      m1 \in {161, 0}, m2 \in {20, 21}, ver \in {VERSION, VERSION + 1},
      len \in 0..2, payload \in {<<>>, <<NULL>>, <<INT8, 1>>, <<NULL, NULL>>} }

ReceivedBuffers ==
  ReceivedPackets \cup {SubSeq(b, 1, n) : b \in ReceivedPackets, n \in {0, 1, 7}}

\* await protocol.decode(buffer), for a buffer received from elsewhere
CodecReceive(buffer) ==
  /\ last' = [op |-> "receive", buffer |-> buffer, ret |-> Decode(buffer)]
  /\ UNCHANGED <<now, cache, backup, hist>>
  /\ UNCHANGED <<agents, memoryContext, lastActive, calls, ever>>

NextCodec ==
  \/ \E data \in CodecValues : CodecEncode(data)
  \/ CodecDecode
  \/ \E buffer \in ReceivedBuffers : CodecReceive(buffer)

SpecCodec == InitCache /\ [][NextCodec]_vars

(***************************************************************************)
(* Sequential sends in the A114 encoding whose content is an integer on    *)
(* either side of the ends of the INT8, INT16 and INT32 ranges or far      *)
(* outside, or an array or object that holds one.                          *)
(***************************************************************************)
IntContents ==
  CodecIntegers
    \cup { JsInt(2097152, 1), JsInt(-2097152, 0),
           JsArray(<<JsInt(0, 128)>>),
           JsArray(<<JsInt(0, 1), JsInt(32768, 0)>>),
           JsObject(<<[key |-> <<97>>, value |-> JsInt(-32769, 65535)]>>) }

IntMessages(t) ==
  {Message(i, "A", "B", [content |-> c, encoding |-> EncA114], NORMAL, t) :
     i \in MsgIds, c \in IntContents}

NextInt ==
  \/ \E o \in {"a1", "b1"} : registerAgent(o, TRUE)
  \/ \E s \in OneSlot, m \in IntMessages(now) : SendStart(s, m, TRUE)
  \/ \E s \in OneSlot : SendRoute(s)
  \/ \E s \in OneSlot : SendDeliver(s)
  \/ \E s \in OneSlot : SendTest(s)
  \/ \E s \in OneSlot : SendFeedbackPass(s)
  \/ \E s \in OneSlot : SendLearn(s)

SpecInt == InitLayerSpec /\ [][NextInt]_vars

(***************************************************************************)
(* The command packets on their own: createCommand(name, data), then        *)
(* parseCommand of the packet it returned, and parseCommand of a buffer      *)
(* received from elsewhere.                                                  *)
(***************************************************************************)
\* names of the table, and names that are not in it
CallNames == CommandNames \cup {"", "init", "FOO", "toString", "constructor"}

\* the data argument: omitted, or a structured value; { a: "a" } stands for
\* the object of the demo
CommandData ==
  { JsUndefined, JsNull, JsBool(FALSE), JsBool(TRUE),
    JsInt(0, 0), JsInt(0, 1), JsInt(0, 128), JsInt(-1, 65535),
    JsString(<<>>), JsString(<<97>>),
    JsArray(<<>>), JsArray(<<JsInt(0, 0)>>),
    JsObject(<<>>), JsObject(<<[key |-> <<97>>, value |-> JsString(<<97>>)]>>) }

\* protocol.createCommand(command, data)
CommandCreate(command, data) ==
  /\ last.op # "createCommand"
  /\ last' = [op |-> "createCommand", command |-> command, data |-> data,
              ret |-> CreateCommand(command, data)]
  /\ UNCHANGED <<now, cache, backup, hist>>
  /\ UNCHANGED <<agents, memoryContext, lastActive, calls, ever>>

\* protocol.parseCommand(packet), for the packet the createCommand before returned
CommandParse ==
  /\ last.op = "createCommand"
  /\ ~last.ret.throws
  /\ last' = [op |-> "parseCommand", command |-> last.command, data |-> last.data,
              buffer |-> last.ret.bytes, ret |-> ParseCommand(last.ret.bytes)]
  /\ UNCHANGED <<now, cache, backup, hist>>
  /\ UNCHANGED <<agents, memoryContext, lastActive, calls, ever>>

\* buffers that did not come from createCommand: empty, one byte that is or
\* is not a code of the table, a code and a payload
CommandBuffers ==
  {<<>>} \cup {<<b>> : b \in {0, 1, 5, 51, 67, 68, 255}}
         \cup {<<b, NULL>> : b \in {0, 51, 255}}
         \cup {<<b, INT8, 1>> : b \in {0, 51, 255}}

\* protocol.parseCommand(buffer), for a buffer received from elsewhere
CommandReceive(buffer) ==
  /\ last' = [op |-> "receiveCommand", buffer |-> buffer, ret |-> ParseCommand(buffer)]
  /\ UNCHANGED <<now, cache, backup, hist>>
  /\ UNCHANGED <<agents, memoryContext, lastActive, calls, ever>>

NextCommand ==
  \/ \E command \in CallNames, data \in CommandData : CommandCreate(command, data)
  \/ CommandParse
  \/ \E buffer \in CommandBuffers : CommandReceive(buffer)

SpecCommand == InitCache /\ [][NextCommand]_vars

(***************************************************************************)
(* Claims about the cache on its own (SpecCache).                          *)
(***************************************************************************)

\* C9: in every reachable state of a CacheManager of capacity N, whatever
\* set, get, has, delete, clear, optimize and restoreCritical calls were made,
\* the number of stored entries is at most N.
C9_SizeAtMostCapacity == CacheSize(cache) <= cache.max

\* a full cache that has already evicted an entry for a new key
C9_Witness ==
  /\ CacheSize(cache) = cache.max
  /\ cache.sets > cache.max
  /\ cache.evictions >= 1

\* C10: after N+1 set calls with pairwise distinct keys on the empty cache of
\* capacity N and no other call, the stored keys are all the keys set but the
\* first one, and the evictions stat, 0 at construction, is 1.
C10_FirstInsertedEvicted ==
  (hist.fresh /\ Len(hist.keys) = cache.max + 1) =>
     /\ KeysOf(cache.list) = {hist.keys[i] : i \in 2..Len(hist.keys)}
     /\ CacheSize(cache) = cache.max
     /\ cache.evictions = 1
     /\ cache.sets = cache.max + 1

\* N+1 distinct keys have been set and nothing else was called
C10_Witness ==
  /\ hist.fresh
  /\ Len(hist.keys) = cache.max + 1
  /\ hist.keys[1] \notin KeysOf(cache.list)

(***************************************************************************)
(* Claims about the layer.                                                 *)
(***************************************************************************)

\* a sendMessage call returns in this step
SendReturns == last' # last /\ last'.op = "sendMessage"

\* the message's sender and receiver are both registered (in the state before)
PeersRegistered(m) == agents[m.senderId] # NoAgent /\ agents[m.receiverId] # NoAgent

\* the integer content fits the signed 32-bit range of the codec
InInt32(content) == content.hi >= -32768 /\ content.hi <= 32767

\* C1: a sendMessage whose senderId or receiverId is not registered returns
\* false and leaves the cache (entries and stats), every peer's memoryContext
\* and lastActive, and the registry as they were.
C1_UnregisteredSendChangesNothing ==
  [][ (SendReturns /\ ~PeersRegistered(last'.msg)) =>
        /\ last'.ret = Returned(FALSE)
        /\ cache' = cache
        /\ memoryContext' = memoryContext
        /\ lastActive' = lastActive
        /\ agents' = agents ]_vars

\* a send to an unregistered peer has returned false on a layer that holds a
\* cached message and a delivered message
C1_Witness ==
  /\ last.op = "sendMessage"
  /\ ~PeersRegistered(last.msg)
  /\ last.ret = Returned(FALSE)
  /\ CacheSize(cache) > 0
  /\ \E o \in AgentObjs : memoryContext[o] # EmptyMap

\* C2: in a sequential run, a sendMessage from a registered peer to another
\* registered peer returns true, and the recallMessage of its id for its
\* receiver that follows it returns a value that is not null.
C2_SendThenRecall ==
  [][ /\ (/\ SendReturns
          /\ PeersRegistered(last'.msg)
          /\ last'.msg.senderId # last'.msg.receiverId)
         => last'.ret = Returned(TRUE)
      /\ (/\ last.op = "sendMessage"
          /\ PeersRegistered(last.msg)
          /\ last.msg.senderId # last.msg.receiverId
          /\ last' # last
          /\ last'.op = "recallMessage"
          /\ last'.messageId = last.msg.id
          /\ last'.agentId = last.msg.receiverId)
         => (~last'.got.throws /\ last'.got.value # Null) ]_vars

\* C3: every sendMessage call that has returned returned true or false; no
\* fault, of the registration check, of the codec or of route, reached the
\* caller.
C3_SendNeverThrows ==
  last.op = "sendMessage" => (~last.ret.throws /\ last.ret.value \in BOOLEAN)

\* the codec faulted on an integer outside the 32-bit range, between registered
\* peers, and the call returned false
C3_Witness ==
  /\ last.op = "sendMessage"
  /\ PeersRegistered(last.msg)
  /\ last.msg.encoding = EncA114
  /\ ~InInt32(last.msg.content)
  /\ last.ret = Returned(FALSE)

\* C4: the validate phase sets the call's validation to "the key msg_<id> is in
\* the receiver's memoryContext and live in the cache" as of that phase, and
\* the call returns that validation, whatever the phase-5 self-tests gave.
C4_ReturnIsValidation ==
  [][ \A s \in Slots :
        /\ (calls[s].pc \in {"feedback", "validate"} /\ calls'[s].pc = "learn") =>
             calls'[s].validation =
               (/\ agents[calls[s].msg.receiverId] # NoAgent
                /\ ("msg_" \o calls[s].msg.id)
                      \in DOMAIN memoryContext[agents[calls[s].msg.receiverId]]
                /\ CacheHas(cache, "msg_" \o calls[s].msg.id, now))
        /\ (calls[s].pc = "learn" /\ calls'[s].pc = "idle") =>
             (/\ last'.op = "sendMessage"
              /\ last'.ret = Returned(calls[s].validation)) ]_vars

\* a call whose phase-5 self-tests failed has returned true
C4_Witness ==
  /\ last.op = "sendMessage"
  /\ last.tests # <<>>
  /\ ~AllPass(last.tests)
  /\ last.ret = Returned(TRUE)

\* C5: recallMessage(messageId, agentId) returns the cache value under
\* msg_<messageId> when the cache holds a live entry for it, otherwise the entry
\* under that key of the memoryContext of agentId when that agent is registered
\* and has it, otherwise null; it never throws.
C5_RecallCacheThenMemory ==
  [][ \A s \in Slots :
        /\ (calls[s].pc = "idle" /\ calls'[s].pc = "recall") =>
             calls'[s].cached =
               (IF CacheHas(cache, "msg_" \o calls'[s].messageId, now)
                  THEN EntryOf(cache.list, "msg_" \o calls'[s].messageId).value
                  ELSE Null)
        /\ (calls[s].pc = "recall" /\ calls'[s].pc = "idle") =>
             LET key == "msg_" \o calls[s].messageId
                 agent == agents[calls[s].agentId]
             IN /\ last'.op = "recallMessage"
                /\ last'.got =
                     Returned(IF calls[s].cached # Null THEN calls[s].cached
                              ELSE IF agent # NoAgent /\ key \in DOMAIN memoryContext[agent]
                                     THEN memoryContext[agent][key]
                                     ELSE Null) ]_vars

\* a recall answered from the agent's memory: the cache no longer has the key
C5_Witness ==
  /\ last.op = "recallMessage"
  /\ ~last.got.throws
  /\ last.got.value # Null
  /\ ("msg_" \o last.messageId) \notin KeysOf(cache.list)
  /\ cache.misses > 0

\* C6: clearMemory(id) with the id of a registered peer empties that peer's
\* memoryContext and leaves every other peer's memoryContext and the shared
\* cache (entries and stats) unchanged.
C6_ClearOnePeerOnly ==
  [][ (/\ last' # last
       /\ last'.op = "clearMemory"
       /\ last'.arg \in AgentIds
       /\ agents[last'.arg] # NoAgent)
      => /\ memoryContext'[agents[last'.arg]] = EmptyMap
         /\ \A o \in AgentObjs \ {agents[last'.arg]} : memoryContext'[o] = memoryContext[o]
         /\ cache' = cache ]_vars

\* C7: clearMemory() with no argument leaves every registered peer with an
\* empty memoryContext and the cache with size 0, keeps the registry, and a
\* recallMessage of any id for any agent then returns null.
C7_ClearAll ==
  [][ /\ (last' # last /\ last'.op = "clearMemory" /\ last'.arg = Undefined) =>
           /\ \A i \in AgentIds :
                agents[i] # NoAgent => memoryContext'[agents[i]] = EmptyMap
           /\ CacheSize(cache') = 0
           /\ agents' = agents
           /\ \A i \in MsgIds, a \in AgentIds :
                /\ ~CacheHas(cache', "msg_" \o i, now')
                /\ agents'[a] # NoAgent =>
                     ("msg_" \o i) \notin DOMAIN memoryContext'[agents'[a]]
      /\ (/\ last.op = "clearMemory"
          /\ last.arg = Undefined
          /\ last' # last
          /\ last'.op = "recallMessage")
         => last'.got = Returned(Null) ]_vars

\* clearMemory() has just emptied a cache that held a message
C7_Witness ==
  /\ last.op = "clearMemory"
  /\ last.arg = Undefined
  /\ cache.sets > 0
  /\ cache.evictions = cache.sets
  /\ Registered(agents) # {}

\* C8: registerAgent inserts or replaces by id and nothing else, registering
\* an agent a second time changes nothing, and the number of registered agents
\* is the number of distinct ids registered so far.
C8_RegisterIdempotent ==
  /\ Cardinality(Registered(agents)) = Cardinality(ever)
  /\ \A o \in AgentObjs :
       LET once == RegisterAgent(agents, o) IN
         /\ RegisterAgent(once, o) = once
         /\ once[IdOf[o]] = o
         /\ \A i \in AgentIds \ {IdOf[o]} : once[i] = agents[i]

\* agent b2 has replaced agent b1, which holds a delivered message, under id B
C8_Witness ==
  /\ last.op = "registerAgent"
  /\ last.agent = "b2"
  /\ agents["B"] = "b2"
  /\ memoryContext["b1"] # EmptyMap

(***************************************************************************)
(* Claims about the cache: recency, expiry and the stats.                  *)
(***************************************************************************)

\* the cache call made in this step is op (Tick leaves last as it is)
CacheCall(op) == now' = now /\ last'.op = op

\* C11: a successful get(k) adds one to the hits stat and to the accessCount
\* of the entry and makes k the most recently used entry; a set of a new key on
\* a full cache removes exactly one entry, the least recently used one: no
\* stored entry was set or successfully read longer ago than it.
C11_GetRefreshesRecency ==
  [][ /\ (CacheCall("get") /\ CacheHas(cache, last'.key, now)) =>
           /\ last'.ret = EntryOf(cache.list, last'.key).value
           /\ cache'.hits = cache.hits + 1
           /\ cache'.misses = cache.misses
           /\ EntryOf(cache'.list, last'.key).accessCount
                = EntryOf(cache.list, last'.key).accessCount + 1
           /\ cache'.list[Len(cache'.list)].key = last'.key
           /\ SeqRemove(cache'.list, last'.key) = SeqRemove(cache.list, last'.key)
      /\ (/\ CacheCall("set")
          /\ last'.key \notin KeysOf(cache.list)
          /\ CacheSize(cache) = cache.max) =>
           \E gone \in KeysOf(cache.list) :
             /\ KeysOf(cache'.list) = (KeysOf(cache.list) \ {gone}) \cup {last'.key}
             /\ gone = cache.list[1].key
             /\ \A x \in KeysOf(cache.list) :
                  EntryOf(cache.list, gone).start <= EntryOf(cache.list, x).start ]_vars

\* the first key set was read later than the second one was set, and the set
\* that overflowed the cache removed the second key and kept the first
C11_Witness ==
  /\ last.op = "set"
  /\ cache.evictions = 1
  /\ "k1" \in KeysOf(cache.list)
  /\ "k2" \notin KeysOf(cache.list)
  /\ EntryOf(cache.list, "k1").accessCount = 1
  /\ EntryOf(cache.list, "k1").start > EntryOf(cache.list, "k1").timestamp
  /\ CacheSize(cache) = cache.max
  /\ cache.sets = cache.max + 1

C13_EvictionsCountEvictionsOnly ==
  [][ /\ (/\ CacheCall("set")
          /\ last'.key \notin KeysOf(cache.list)
          /\ CacheSize(cache) = cache.max) =>
           cache'.evictions = cache.evictions + 1
      /\ (/\ CacheCall("get")
          /\ last'.key \in KeysOf(cache.list)
          /\ IsStale(EntryOf(cache.list, last'.key), now)) =>
           cache'.evictions = cache.evictions + 1
      /\ CacheCall("delete") => cache'.evictions = cache.evictions ]_vars

\* the place of key k in the recency order s
PlaceOf(s, k) == CHOOSE i \in 1..Len(s) : s[i].key = k

\* the stored entries that optimize() is to remove at this time: not expired,
\* priority LOW, read fewer than twice, created more than half their ttl ago
SweepKeys ==
  {k \in KeysOf(cache.list) :
     LET e == EntryOf(cache.list, k) IN
       /\ now - e.start <= e.ttl
       /\ e.priority = LOW
       /\ e.accessCount < 2
       /\ 2 * (now - e.timestamp) > e.ttl}

\* C14: optimize() removes exactly the live entries of priority LOW with
\* accessCount below 2 and an age above half their ttl; every other entry stays
\* as it was (value, priority, accessCount, ttl) and in the same recency order.
C14_OptimizeRemovesExactly ==
  [][ CacheCall("optimize") =>
        /\ KeysOf(cache'.list) = KeysOf(cache.list) \ SweepKeys
        /\ Len(cache'.list) = Cardinality(KeysOf(cache'.list))
        /\ \A k \in KeysOf(cache'.list) :
             EntryOf(cache'.list, k) = EntryOf(cache.list, k)
        /\ \A j, k \in KeysOf(cache'.list) :
             PlaceOf(cache'.list, j) < PlaceOf(cache'.list, k)
               <=> PlaceOf(cache.list, j) < PlaceOf(cache.list, k) ]_vars

\* optimize() has removed an old LOW entry and kept a LOW entry set a tick later
C14_Witness ==
  /\ last.op = "optimize"
  /\ cache.sets = 2
  /\ cache.evictions > 0
  /\ CacheSize(cache) = 1
  /\ cache.list[1].priority = LOW
  /\ cache.list[1].key = "k2"
  /\ cache.list[1].timestamp = now

\* C15: optimize() leaves the evictions stat as it was, however many entries
\* it removed.
C15_OptimizeKeepsEvictions ==
  [][ CacheCall("optimize") => cache'.evictions = cache.evictions ]_vars

\* C16: getStats() reports hitRate = hits / (hits + misses), and 0 when hits
\* and misses are both zero; 3 hits and 1 miss give 3/4; hits + misses grows by
\* one with every get call and with no other call.
C16_HitRate ==
  [][ /\ cache'.hits + cache'.misses
           = cache.hits + cache.misses + (IF CacheCall("get") THEN 1 ELSE 0)
      /\ CacheCall("getStats") =>
           LET st == last'.ret IN
             /\ st.hits = cache.hits
             /\ st.misses = cache.misses
             /\ st.hits + st.misses = 0 => st.hitRate = [num |-> 0, den |-> 1]
             /\ st.hits + st.misses > 0 =>
                  /\ st.hitRate # NaN
                  /\ st.hitRate.den > 0
                  /\ st.hitRate.num * (st.hits + st.misses) = st.hits * st.hitRate.den
             /\ (st.hits = 3 /\ st.misses = 1) => st.hitRate = [num |-> 3, den |-> 4] ]_vars

\* getStats() after three hits and one miss
C16_Witness ==
  /\ last.op = "getStats"
  /\ last.ret.hits = 3
  /\ last.ret.misses = 1
  /\ last.ret.hitRate = [num |-> 3, den |-> 4]

\* C17: backupCritical() returns one pair per live entry of priority CRITICAL,
\* with its key and value, and nothing else, and changes no cache state;
\* restoreCritical(backup) leaves every pair of the backup in the cache as an
\* entry of priority CRITICAL with a ttl of 600000 ms, created at that time.
C17_BackupAndRestoreCritical ==
  [][ /\ CacheCall("backupCritical") =>
           /\ cache' = cache
           /\ {backup'[i] : i \in 1..Len(backup')}
                = {[key |-> k, value |-> EntryOf(cache.list, k).value] :
                     k \in {x \in KeysOf(cache.list) :
                              /\ EntryOf(cache.list, x).priority = CRITICAL
                              /\ now - EntryOf(cache.list, x).start
                                   <= EntryOf(cache.list, x).ttl}}
           /\ \A i, j \in 1..Len(backup') : backup'[i].key = backup'[j].key => i = j
      /\ CacheCall("restoreCritical") =>
           /\ backup' = backup
           /\ cache'.sets = cache.sets + Len(backup)
           /\ \A i \in 1..Len(backup) :
                /\ backup[i].key \in KeysOf(cache'.list)
                /\ EntryOf(cache'.list, backup[i].key).value = backup[i].value
                /\ EntryOf(cache'.list, backup[i].key).priority = CRITICAL
                /\ EntryOf(cache'.list, backup[i].key).ttl = 600000
                /\ EntryOf(cache'.list, backup[i].key).timestamp = now
                /\ EntryOf(cache'.list, backup[i].key).accessCount = 0 ]_vars

\* a CRITICAL entry set with the default ttl was backed up next to a LOW entry
\* that was not, and the restore has written it with the ttl of 600000 ms
C17_Witness ==
  /\ last.op = "restoreCritical"
  /\ Len(backup) = 1
  /\ CacheSize(cache) = 2
  /\ EntryOf(cache.list, backup[1].key).ttl = 600000
  /\ \E k \in KeysOf(cache.list) :
       EntryOf(cache.list, k).priority = LOW /\ EntryOf(cache.list, k).ttl = 300000

\* C18: a set(key, value) without a ttl gives the entry the maxAge the cache
\* was built with as its ttl, so that a get of the key within maxAge of the
\* set (or of its latest successful get) is a hit.
C18_SetUsesConfiguredTtl ==
  [][ /\ CacheCall("set") => EntryOf(cache'.list, last'.key).ttl = cache.ttl
      /\ (/\ CacheCall("get")
          /\ last'.key \in KeysOf(cache.list)
          /\ now - EntryOf(cache.list, last'.key).start <= cache.ttl) =>
           /\ cache'.hits = cache.hits + 1
           /\ last'.ret = EntryOf(cache.list, last'.key).value ]_vars

(***************************************************************************)
(* Claims about the layer's use of the cache.                              *)
(***************************************************************************)

\* C19: when route stores a message whose key msg_<id> is already in the
\* cache, the cache afterwards holds one entry for the key, with the content
\* (as compacted), receiver and priority of the message being sent and
\* accessCount 0, and as many entries as before.
C19_ResendOverwrites ==
  [][ \A s \in Slots :
        (/\ calls[s].pc = "route"
         /\ calls'[s].pc = "deliver"
         /\ ("msg_" \o calls[s].msg.id) \in KeysOf(cache.list)) =>
          LET key == "msg_" \o calls[s].msg.id
              e == EntryOf(cache'.list, key)
          IN /\ Cardinality({i \in 1..Len(cache'.list) : cache'.list[i].key = key}) = 1
             /\ e.value.i = calls[s].msg.id
             /\ e.value.c = calls[s].msg.content
             /\ e.value.r = calls[s].msg.receiverId
             /\ e.value.p = calls[s].msg.priority
             /\ e.priority = calls[s].msg.priority
             /\ e.accessCount = 0
             /\ e.timestamp = now
             /\ CacheSize(cache') = CacheSize(cache) ]_vars

\* m1 went to B with content 5 and priority NORMAL, then to A with content 6
\* and priority HIGH: the cache holds the second message only
C19_Witness ==
  /\ last.op = "sendMessage"
  /\ last.ret = Returned(TRUE)
  /\ cache.sets = 2
  /\ CacheSize(cache) = 1
  /\ agents["B"] # NoAgent
  /\ "msg_m1" \in DOMAIN memoryContext[agents["B"]]
  /\ memoryContext[agents["B"]]["msg_m1"].content = JsNumber(5)
  /\ cache.list[1].value.r = "A"
  /\ cache.list[1].value.c = JsNumber(6)
  /\ cache.list[1].priority = HIGH

(***************************************************************************)
(* Claims about the codec                                                   *)
(***************************************************************************)
\* C20: for every value of the bounded set (null, booleans, integers on both
\* sides of the ends of the INT8, INT16 and INT32 ranges, strings, arrays and
\* objects, nested), encode returns a packet and decode of that packet
\* returns a value structurally equal to the encoded one, keys in their order
C20_RoundTrip ==
  /\ last.op = "encode" => ~last.ret.throws
  /\ last.op = "decode" => (~last.ret.throws /\ last.ret.value = last.data)

\* the integer of a number whose limbs fit the signed 32-bit range
IntegerOf(value) == value.hi * 65536 + value.lo

\* the bytes after the header of the packet that encode returned
PayloadOf(ret) == SubSeq(ret.bytes, HEADER_SIZE + 1, Len(ret.bytes))

\* C21: encode of an integer of the signed 32-bit range returns a packet whose
\* payload is the tag INT8 and 1 byte for -128..127, the tag INT16 and 2 bytes
\* for every other integer of -32768..32767, and the tag INT32 and 4 bytes
\* for the rest (so 127 is INT8, 128 and 32767 are INT16, 32768 is INT32);
\* encode of a number that is not an integer returns the tag FLOAT64 and 8 bytes
C21_NarrowestIntegerTag ==
  /\ (last.op = "encode" /\ last.data.type = "number" /\ InInt32(last.data)) =>
        /\ ~last.ret.throws
        /\ LET n == IntegerOf(last.data)
               payload == PayloadOf(last.ret)
           IN IF n >= -128 /\ n <= 127
                THEN payload[1] = INT8 /\ Len(payload) = 2
              ELSE IF n >= -32768 /\ n <= 32767
                THEN payload[1] = INT16 /\ Len(payload) = 3
                ELSE payload[1] = INT32 /\ Len(payload) = 5
  /\ (last.op = "encode" /\ last.data.type = "float") =>
        /\ ~last.ret.throws
        /\ PayloadOf(last.ret)[1] = FLOAT64
        /\ Len(PayloadOf(last.ret)) = 9

\* encode(32768) has returned a packet tagged INT32
C21_Witness ==
  /\ last.op = "encode"
  /\ last.data = JsInt(0, 32768)
  /\ ~last.ret.throws
  /\ PayloadOf(last.ret)[1] = INT32

\* C22: decode of a buffer shorter than 8 bytes throws the too-short error;
\* otherwise, of a buffer whose magic bytes are not 0xA1 0x14, the magic
\* error; otherwise, of a buffer whose version is not 1, the version error;
\* otherwise, of a buffer whose declared payload length is not the number of
\* bytes after the header, the length error: the first failing check is the
\* one reported and no value is returned
C22_DecodeRejectsMalformed ==
  last.op = "receive" =>
    LET b == last.buffer IN
    IF Len(b) < 8
      THEN last.ret = Thrown("Invalid A114 packet: too short")
    ELSE IF b[1] # 161 \/ b[2] # 20
      THEN last.ret = Thrown("Invalid A114 packet: wrong magic bytes")
    ELSE IF b[3] # 1
      THEN last.ret = Thrown("Unsupported A114 version")
    ELSE IF ((b[5] * 256 + b[6]) * 256 + b[7]) * 256 + b[8] # Len(b) - 8
      THEN last.ret = Thrown("Invalid A114 packet: payload length mismatch")
      ELSE TRUE

\* decode has rejected a buffer with right magic bytes and version whose
\* declared payload length is wrong
C22_Witness ==
  /\ last.op = "receive"
  /\ Len(last.buffer) >= 8
  /\ last.buffer[1] = 161 /\ last.buffer[2] = 20 /\ last.buffer[3] = 1
  /\ last.buffer[8] # Len(last.buffer) - 8
  /\ last.ret = Thrown("Invalid A114 packet: payload length mismatch")

\* the codes of the command table are pairwise distinct
DistinctCodes ==
  \A i, j \in 1..Len(COMMANDS) : COMMANDS[i].code = COMMANDS[j].code => i = j

\* C23: the command codes are pairwise distinct, and for every command name
\* of the table and every data (0, false, the empty string and null
\* included) createCommand returns a packet, and parseCommand of that packet
\* returns the name and a value equal to data, or no data when none was given
C23_CommandRoundTrip ==
  /\ DistinctCodes
  /\ (last.op = "createCommand" /\ last.command \in CommandNames) => ~last.ret.throws
  /\ (last.op = "parseCommand" /\ last.command \in CommandNames) =>
        /\ ~last.ret.throws
        /\ last.ret.value.command = last.command
        /\ last.ret.value.data = last.data

\* C24: createCommand of a name that is not in the command table throws the
\* unknown-command error; parseCommand of an empty buffer throws the
\* empty-packet error, and of a buffer whose first byte is no code of the
\* table the unknown-command-code error
C24_CommandErrors ==
  /\ (last.op = "createCommand" /\ last.command \notin CommandNames) =>
        last.ret = Thrown("Unknown A114 command")
  /\ (last.op = "receiveCommand" /\ last.buffer = <<>>) =>
        last.ret = Thrown("Empty A114 command packet")
  /\ (/\ last.op = "receiveCommand"
      /\ last.buffer # <<>>
      /\ \A i \in 1..Len(COMMANDS) : COMMANDS[i].code # last.buffer[1]) =>
        last.ret = Thrown("Unknown A114 command code")

(***************************************************************************)
(* Claims about the content of a message                                   *)
(***************************************************************************)
\* the content and the encoding of the message sent under an id
SentUnder(id) ==
  CHOOSE m \in ContentMessages(0) : m.id = id

\* the content of what recallMessage returned: c of the compact message of
\* the cache, content of the entry of the agent's memory
ContentOf(recalled) ==
  IF "c" \in DOMAIN recalled THEN recalled.c ELSE recalled.content

\* the inverse of the transform optimizeMessage applied under an encoding
Inverted(content, encoding) ==
  IF encoding = EncA114 THEN Decode(content.bytes).value ELSE Decompress(content)

\* C25: when recallMessage returns a message, the content it carries, once
\* decoded (A114 encoding) or decompressed (any other encoding), equals the
\* content of the message that was sent under the id
C25_ContentSurvives ==
  (last.op = "recallMessage" /\ last.got.value # Null) =>
    Inverted(ContentOf(last.got.value), SentUnder(last.messageId).encoding)
      = SentUnder(last.messageId).content

(***************************************************************************)
(* Claims about overlapping calls                                          *)
(***************************************************************************)
\* the outcome of sendMessage(m) awaited and then clearMemory(): the send
\* returned true, the cache and both peers' memories are empty
SendThenClear(m) ==
  /\ last.ret = Returned(TRUE)
  /\ cache.list = <<>>
  /\ memoryContext[agents[m.senderId]] = EmptyMap
  /\ memoryContext[agents[m.receiverId]] = EmptyMap

\* the outcome of clearMemory() awaited and then sendMessage(m): the send
\* returned true, the cache holds the message alone, the receiver's memory
\* the message alone and the sender's memory the learning of a send whose
\* tests all passed
ClearThenSend(m) ==
  /\ last.ret = Returned(TRUE)
  /\ KeysOf(cache.list) = {MsgKey(m.id)}
  /\ cache.list[1].value = OptimizeMessage(m).value
  /\ memoryContext[agents[m.receiverId]] =
       RouteMemory(EmptyMap, OptimizeMessage(m).value)
  /\ memoryContext[agents[m.senderId]] =
       MapSet(EmptyMap, LearningKey(now),
              ExtractLearnings("All delivery tests passed successfully"))

\* C26: when a sendMessage has returned while a clearMemory() that began
\* before its return was in flight, the send's return value, the cache
\* contents and the peers' memories are those of one of the two serial
\* orders of the two calls
C26_ClearIsAtomic ==
  (last.op = "sendMessage" /\ calls[ClearSlot].pc = "cleared"
      /\ PeersRegistered(last.msg)) =>
    (SendThenClear(last.msg) \/ ClearThenSend(last.msg))

\* the places of the cache's list that hold an entry under key k
EntriesUnder(c, k) == {i \in 1..Len(c.list) : c.list[i].key = k}

\* C27: while sendMessage calls for one message id overlap, retries
\* included, every route step leaves one entry under "msg_" + id, counted
\* once in size, and no step increases evictions unless it removed a key
\* from the cache (by capacity or by expiry)
C27_RaceKeepsCounts ==
  [][ /\ cache' # cache =>
           \A id \in MsgIds :
              /\ Cardinality(EntriesUnder(cache', MsgKey(id))) = 1
              /\ CacheSize(cache') = Cardinality(KeysOf(cache'.list))
      /\ cache'.evictions > cache.evictions =>
           KeysOf(cache.list) \ KeysOf(cache'.list) # {} ]_vars

(***************************************************************************)
(* Claims about the phases of one sendMessage call                         *)
(***************************************************************************)
\* the steps a sendMessage call may take, by the phase it waits in before
\* and after: check and transform (idle to route), route (route to deliver
\* to test), self-test (test to feedback), then either feedback and
\* validate (feedback to learn) or feedback, correction and the second
\* route (feedback to redeliver to validate) and validate (validate to
\* learn), then learn and return (learn to idle)
PhaseOrder ==
  { <<"idle", "route">>, <<"route", "deliver">>, <<"deliver", "test">>,
    <<"test", "feedback">>, <<"feedback", "learn">>, <<"feedback", "redeliver">>,
    <<"redeliver", "validate">>, <<"validate", "learn">>, <<"learn", "idle">> }

\* the phases of a recallMessage call
RecallOrder == { <<"idle", "recall">>, <<"recall", "idle">> }

\* C28: every step of a sendMessage call follows the fixed order of the
\* phases; the cache is written by the route phase only, once in the first
\* route and once more in the correction; the correction runs exactly when
\* a self-test of step 5 failed, at most once per call, and after the
\* validate phase the call goes to learn whatever the validation was
C28_PhasesInOrder ==
  [][ \A s \in Slots :
        calls'[s] # calls[s] =>
          LET pc == calls[s].pc
              pc2 == calls'[s].pc
          IN /\ <<pc, pc2>> \in PhaseOrder \cup RecallOrder
             /\ (pc = "feedback") =>
                   /\ (pc2 = "redeliver") <=>
                        (\E i \in 1..Len(calls[s].tests) : ~calls[s].tests[i])
                   /\ (pc2 = "redeliver") => (~calls[s].corrected /\ calls'[s].corrected)
                   /\ (pc2 = "learn") => (~calls'[s].corrected /\ cache' = cache)
             /\ (cache'.sets > cache.sets) =>
                   (<<pc, pc2>> \in {<<"route", "deliver">>, <<"feedback", "redeliver">>}
                      /\ cache'.sets = cache.sets + 1)
             /\ (pc \in {"route", "feedback"} /\ pc2 \in {"deliver", "redeliver"}) =>
                   cache'.sets = cache.sets + 1 ]_vars

\* a call that routed a second time has validated and waits in learn
C28_Witness ==
  \E s \in Slots : calls[s].pc = "learn" /\ calls[s].corrected

\* C29: under fair scheduling of the calls in flight, every sendMessage call
\* that is in flight eventually returns, whatever registerAgent,
\* clearMemory and sendMessage calls interleave with it
C29_EverySendReturns ==
  \A s \in Slots : (calls[s].pc # "idle") ~> (calls[s].pc = "idle")

\* a send whose self-test failed has returned while another call is in flight
C29_Witness ==
  /\ last.op = "sendMessage"
  /\ last.corrected
  /\ \E x \in {y \in 1..Len(last.tests) : ~last.tests[y]} : TRUE
  /\ \E s \in Slots : calls[s].pc # "idle"

(***************************************************************************)
(* Claims about the route step                                             *)
(***************************************************************************)
\* the cache entry a route step of the call in slot s stores
RoutedEntry(c, s) == EntryOf(c.list, MsgKey(calls[s].msg.id))

\* the cache holds the routed message of the call in slot s: under
\* "msg_" + id, with ttl 300000, the priority of the message and the
\* compact message with its compressed flag set
RoutedInCache(c, s) ==
  /\ MsgKey(calls[s].msg.id) \in KeysOf(c.list)
  /\ RoutedEntry(c, s).ttl = 300000
  /\ RoutedEntry(c, s).priority = calls[s].msg.priority
  /\ RoutedEntry(c, s).value = calls[s].compact
  /\ RoutedEntry(c, s).value.i = calls[s].msg.id
  /\ RoutedEntry(c, s).value.cp = TRUE

\* C30: every route step that completes, the first one and the one of the
\* correction, leaves the compact message (compressed flag true) in the
\* cache under "msg_" + id with ttl 300000 and the message's priority,
\* leaves an entry under the same key in the memoryContext of the receiver
\* and the receiver's lastActive at the current time; no part of the step
\* changes the memoryContext of any other peer
C30_RouteStepEffects ==
  [][ \A s \in OneSlot :
        LET pc == calls[s].pc
            pc2 == calls'[s].pc
            B == calls[s].receiver
        IN /\ (pc \in {"route", "feedback"} /\ pc2 \in {"deliver", "redeliver"}) =>
                /\ calls'[s].receiver = agents[calls[s].msg.receiverId]
                /\ memoryContext' = memoryContext
           /\ (pc \in {"deliver", "redeliver"} /\ pc2 \in {"test", "validate"}) =>
                /\ RoutedInCache(cache', s)
                /\ MsgKey(calls[s].msg.id) \in DOMAIN memoryContext'[B]
                /\ lastActive'[B] = now
                /\ \A o \in AgentObjs \ {B} : memoryContext'[o] = memoryContext[o] ]_vars

(***************************************************************************)
(* Claims about the learning entries                                       *)
(***************************************************************************)
\* the keys of the learning entries of a memoryContext
LearningEntries(mem) == DOMAIN mem \ {MsgKey(id) : id \in MsgIds}

\* C31: every sendMessage call that completes the pipeline adds one learning
\* entry to the sender's memoryContext, so that k completed sends with no
\* clearMemory in between leave k learning entries, also when several sends
\* complete at the same clock value
C31_OneLearningPerSend ==
  [][ \A s \in OneSlot :
        (calls[s].pc = "learn" /\ calls'[s].pc = "idle") =>
          LET sender == agents[calls[s].msg.senderId] IN
          Cardinality(LearningEntries(memoryContext'[sender])) =
            Cardinality(LearningEntries(memoryContext[sender])) + 1 ]_vars

(***************************************************************************)
(* Claims about the registry                                               *)
(***************************************************************************)
\* C32: no step removes an id from the registry: every id ever registered
\* is registered after every step, whatever calls interleave; hence no
\* route step of a sendMessage call that passed the registration check,
\* the first route or the retry, ends the call with the receiver-not-found
\* fault (the only way from the route or the feedback phase to the return)
C32_RegistryKeepsIds ==
  [][ /\ Registered(agents) \subseteq Registered(agents')
      /\ ever' \subseteq Registered(agents')
      /\ \A s \in Slots :
            /\ calls'[s].pc \in {"route", "deliver", "test", "feedback", "redeliver",
                                 "validate", "learn"} =>
                  {calls'[s].msg.senderId, calls'[s].msg.receiverId}
                     \subseteq Registered(agents')
            /\ ~(calls[s].pc \in {"route", "feedback"} /\ calls'[s].pc = "idle") ]_vars

\* the retry of a send has routed after the receiver was registered again
\* with another agent object
C32_Witness ==
  \E s \in Slots :
    /\ calls[s].pc = "redeliver"
    /\ calls[s].receiver = "b2"
    /\ memoryContext["b1"] # EmptyMap
    /\ ever = {"A", "B"}

(***************************************************************************)
(* Claims about recall                                                     *)
(***************************************************************************)
\* the agent registered under id b holds the message id in its memoryContext
InMemory(ag, mem, b, id) == ag[b] # NoAgent /\ MsgKey(id) \in DOMAIN mem[ag[b]]

\* C33: a message delivered to B stays recallable by B: when sendMessage of
\* id to B returns true, B's memoryContext holds it; no step removes it
\* from the memoryContext of the agent registered as B but a clearMemory
\* that touches B or a registration under B's id; and while B's
\* memoryContext holds it, recallMessage(id, B) returns non-null, whether
\* the cache still holds the message or has lost it to the TTL, to a
\* capacity eviction or to optimize()
C33_DeliveredStaysRecallable ==
  [][ \A id \in RecallIds, b \in AgentIds :
        /\ (\E s \in OneSlot :
              /\ calls[s].pc = "learn" /\ calls'[s].pc = "idle"
              /\ calls[s].msg.id = id /\ calls[s].msg.receiverId = b
              /\ last'.ret = Returned(TRUE))
              => InMemory(agents', memoryContext', b, id)
        /\ (InMemory(agents, memoryContext, b, id)
              /\ ~InMemory(agents', memoryContext', b, id))
              => /\ calls' = calls
                 /\ \/ agents'[b] # agents[b]
                    \/ last'.op = "clearMemory" /\ (last'.arg = b \/ ~Truthy(last'.arg))
        /\ (\E s \in OneSlot :
              /\ calls[s].pc = "recall" /\ calls'[s].pc = "idle"
              /\ calls[s].messageId = id /\ calls[s].agentId = b
              /\ InMemory(agents, memoryContext, b, id))
              => last'.got.value # Null ]_vars

\* recallMessage("m1", "B") has answered from B's memory after the send of m2
\* evicted m1 from the full cache
C33_Witness ==
  /\ last.op = "recallMessage"
  /\ last.messageId = "m1" /\ last.agentId = "B"
  /\ last.got.value # Null
  /\ KeysOf(cache.list) = {MsgKey("m2")}
  /\ cache.evictions = 1
  /\ now = 0

(***************************************************************************)
(* Claims about a sendMessage call that returns false                      *)
(***************************************************************************)
\* the step is the return of a sendMessage call with the value false: at
\* once from the registration check or the transform, or from a later phase
ReturnsFalse ==
  /\ last'.op = "sendMessage"
  /\ last'.ret = Returned(FALSE)
  /\ \/ calls' = calls /\ last' # last
     \/ \E s \in Slots : /\ calls[s].pc \notin {"idle", "recall"}
                         /\ calls'[s].pc = "idle"

\* C34: a sendMessage call that returns false has written nothing, whatever
\* calls interleave with it: it returns from the registration check, from
\* the transform or from the receiver lookup of its first route step, before
\* any cache.set (so that the cache holds no entry of it and sets was not
\* increased by it), and its return writes no learning entry
C34_FalseWritesNothing ==
  [][ ReturnsFalse =>
        /\ \A s \in Slots : calls[s].pc \in {"idle", "route"}
        /\ cache' = cache
        /\ memoryContext' = memoryContext ]_vars

\* the cache holds message id with the agent id b as its receiver
RoutedTo(c, b, id) ==
  MsgKey(id) \in KeysOf(c.list) /\ EntryOf(c.list, MsgKey(id)).value.r = b

\* C35: recallMessage(id, X) returns a non-null result only when X is the id
\* of a registered peer the message was routed to (the peer's memoryContext
\* holds it, or the cached message names X as its receiver), so that a call
\* with the receiver's id and a call with another id do not both return the
\* message
C35_RecallOnlyByReceiver ==
  [][ \A s \in OneSlot :
        (calls[s].pc = "recall" /\ calls'[s].pc = "idle" /\ last'.got.value # Null) =>
          /\ agents[calls[s].agentId] # NoAgent
          /\ \/ InMemory(agents, memoryContext, calls[s].agentId, calls[s].messageId)
             \/ RoutedTo(cache, calls[s].agentId, calls[s].messageId) ]_vars

(***************************************************************************)
(* Claims about the two records of a message                               *)
(***************************************************************************)
\* C36: between sequential calls, whenever the cache holds "msg_" + id and
\* the memoryContext of a registered peer holds "msg_" + id, the two records
\* carry the same content and sender and the cached message names that peer
\* as its receiver, also after the id was sent again to another receiver
C36_CacheAndMemoryAgree ==
  (\A s \in Slots : calls[s].pc = "idle") =>
    \A id \in MsgIds, b \in AgentIds :
      (MsgKey(id) \in KeysOf(cache.list) /\ InMemory(agents, memoryContext, b, id)) =>
        LET cached == EntryOf(cache.list, MsgKey(id)).value
            mirrored == memoryContext[agents[b]][MsgKey(id)]
        IN /\ cached.c = mirrored.content
           /\ cached.s = mirrored.sender
           /\ cached.r = b

(***************************************************************************)
(* Claims about sequential sends                                           *)
(***************************************************************************)
\* C37: in a sequential run, with the clock standing still inside a call,
\* every self-test of step 5 passes, so the correction is not enabled, the
\* validation is true and the call has not routed a second time; the sets
\* stat grows by one in the route step of a send that passed the
\* registration check and the transform, and in no other step of a send
C37_SequentialSendsPass ==
  [][ \A s \in OneSlot :
        LET pc == calls[s].pc
            pc2 == calls'[s].pc
        IN /\ (pc = "test" /\ pc2 = "feedback") =>
                /\ Len(calls'[s].tests) = 3
                /\ \A i \in 1..3 : calls'[s].tests[i]
                /\ AllPass(calls'[s].tests)
           /\ pc2 = "learn" => calls'[s].validation /\ ~calls'[s].corrected
           /\ pc2 \notin {"redeliver", "validate"}
           /\ (pc = "route" /\ pc2 = "deliver") => cache'.sets = cache.sets + 1
           /\ (pc \notin {"route", "recall"} /\ pc2 # "recall" /\ calls' # calls) =>
                cache'.sets = cache.sets
           /\ (pc = "route") => pc2 \in {"route", "deliver"} ]_vars

\* a second send has returned true without a correction, after the clock
\* moved between the two sends
C37_Witness ==
  /\ last.op = "sendMessage"
  /\ last.ret = Returned(TRUE)
  /\ ~last.corrected
  /\ cache.sets = 2
  /\ now > RouteTtl

(***************************************************************************)
(* Claims about integers outside the signed 32-bit range                   *)
(***************************************************************************)
RECURSIVE HoldsWide(_)
\* the value is, or holds, an integer outside -2147483648..2147483647
HoldsWide(value) ==
  CASE value.type = "number" -> ~InInt32(value)
    [] value.type = "array" ->
         \E i \in 1..Len(value.items) : HoldsWide(value.items[i])
    [] value.type = "object" ->
         \E i \in 1..Len(value.pairs) : HoldsWide(value.pairs[i].value)
    [] OTHER -> FALSE

C39_AcceptedPacketsReencode ==
  (last.op = "receive" /\ ~last.ret.throws) =>
     Encode(last.ret.value) = [throws |-> FALSE, bytes |-> last.buffer]

====
